---- MODULE Spec2Model ----
(***************************************************************************)
(* A model of the LLM Council backend: the provider router                 *)
(* (backend/providers/router.py), the four backend adapters                *)
(* (backend/providers/*_provider.py), the configuration (backend/config.py)*)
(* and the streaming session driver (backend/main.py,                      *)
(* send_message_stream.event_generator).                                   *)
(*                                                                         *)
(* backend/council.py (the three stage functions, the title generator) and *)
(* backend/storage.py are not part of the available sources; what the      *)
(* driver needs of them is modelled from the specification and marked so.  *)
(*                                                                         *)
(* Strings that the code takes apart (model identifiers, CLI names) are    *)
(* sequences of one-character strings; startswith, slicing and split are   *)
(* computed on them as Python computes them.                               *)
(***************************************************************************)
EXTENDS Integers, Sequences, FiniteSets, TLC

(***************************************************************************)
(* Bounds of the model.                                                    *)
(***************************************************************************)
\* Longest council list a run is started with.
MaxCouncil == 2

(***************************************************************************)
(* Python string helpers.                                                  *)
(***************************************************************************)
Range(s) == {s[i] : i \in 1..Len(s)}

\* s.startswith(p)
StartsWith(s, p) == Len(s) >= Len(p) /\ SubSeq(s, 1, Len(p)) = p

\* s[n:]
SliceFrom(s, n) == SubSeq(s, n + 1, Len(s))

\* ch in s
Contains(s, ch) == \E i \in 1..Len(s) : s[i] = ch

\* index of the first occurrence of ch in s (s.split(ch, 1) cuts there)
FirstIndex(s, ch) == CHOOSE i \in 1..Len(s) : s[i] = ch /\ \A j \in 1..(i - 1) : s[j] # ch

\* s.split(ch, 1)[0] and [1], for a string that contains ch
SplitHead(s, ch) == SubSeq(s, 1, FirstIndex(s, ch) - 1)
SplitTail(s, ch) == SubSeq(s, FirstIndex(s, ch) + 1, Len(s))

(***************************************************************************)
(* String literals of the program, as character sequences.                 *)
(***************************************************************************)
S_cli_prefix == <<"c", "l", "i", ":">>
S_openrouter_prefix == <<"o", "p", "e", "n", "r", "o", "u", "t", "e", "r", ":">>
S_openai == <<"o", "p", "e", "n", "a", "i">>
S_anthropic == <<"a", "n", "t", "h", "r", "o", "p", "i", "c">>
S_openrouter == <<"o", "p", "e", "n", "r", "o", "u", "t", "e", "r">>
S_cli == <<"c", "l", "i">>
S_unknown == <<"u", "n", "k", "n", "o", "w", "n">>
S_gemini == <<"g", "e", "m", "i", "n", "i">>
S_claude == <<"c", "l", "a", "u", "d", "e">>
S_codex == <<"c", "o", "d", "e", "x">>

\* Mutant of DIRECT_PROVIDERS: only openai is supported directly.
DIRECT_PROVIDERS_OpenAIOnly == {S_openai}

(***************************************************************************)
(* backend/config.py                                                       *)
(***************************************************************************)
\* DIRECT_PROVIDERS = ["openai", "anthropic"]
DIRECT_PROVIDERS == {S_openai, S_anthropic}

\* The per-tool timeout of every CLI_COMMANDS record, in seconds.
CliToolTimeout == 120

\* CLI_COMMANDS: tool name -> record.  A key a record lacks is absent from
\* its domain, so that config.get(key, default) is decided as in the code.
CLI_COMMANDS ==
    (S_gemini :> [command |-> S_gemini, prompt_flag |-> "-p", timeout |-> CliToolTimeout])
    @@ (S_claude :> [command |-> S_claude, timeout |-> CliToolTimeout])
    @@ (S_codex :> [command |-> S_codex, timeout |-> CliToolTimeout, use_output_file |-> TRUE])

\* The provider credentials read from the environment when the module is
\* imported (OPENROUTER_API_KEY, OPENAI_API_KEY, ANTHROPIC_API_KEY).
Providers == {"openrouter", "openai", "anthropic"}

(***************************************************************************)
(* What a query returns: Python's None, an error dict                      *)
(* {'error': True, 'content': "Error: ..."} or a response dict             *)
(* {'content': ..., 'reasoning_details': ...}.                             *)
(***************************************************************************)
NoneValue == [py |-> "None", error |-> FALSE, content |-> ""]
ErrorDict(msg) == [py |-> "dict", error |-> TRUE, content |-> msg]
ResponseDict(text) == [py |-> "dict", error |-> FALSE, content |-> text]

\* The text an adapter reads from a successful backend (not interpreted).
OutputText == "output"

(***************************************************************************)
(* The outside world of one backend call: what the operating system and    *)
(* the network answer.  Each call meets one.                               *)
(*   which      shutil.which(command) finds the command                    *)
(*   fault      the step of query_cli's try block that raises, if any:     *)
(*              creating the temporary file (mktemp), launching the        *)
(*              process (spawn), reading the output file (read)            *)
(*   duration   seconds the launched process runs before it exits          *)
(*   returncode the exit code of the process                               *)
(*   http       what the HTTP exchange does                                *)
(* A world differs from the healthy one in the one thing that goes wrong   *)
(* first: what would have come after it is never observed.                 *)
(***************************************************************************)
HealthyWorld ==
    [which |-> TRUE, fault |-> "none", duration |-> 60, returncode |-> 0, http |-> "ok"]

CliWorlds(usefile) ==
    {HealthyWorld,
     [HealthyWorld EXCEPT !.which = FALSE],
     [HealthyWorld EXCEPT !.fault = "spawn"],
     [HealthyWorld EXCEPT !.duration = 200],
     [HealthyWorld EXCEPT !.returncode = 1]}
    \cup (IF usefile
          THEN {[HealthyWorld EXCEPT !.fault = "mktemp"], [HealthyWorld EXCEPT !.fault = "read"]}
          ELSE {})

HttpWorlds ==
    {[HealthyWorld EXCEPT !.http = h] :
        h \in {"ok", "transport_error", "timeout", "status_error", "decode_error"}}

(***************************************************************************)
(* The frame of one adapter call: how control leaves the code modelled so  *)
(* far (exit), the value returned, and what the call did to the machine.   *)
(*   exit         "return", or the exception that is propagating           *)
(*   tmp_created  tempfile.NamedTemporaryFile(delete=False) made a file    *)
(*   tmp_exists   that file is on disk                                     *)
(*   spawned      create_subprocess_exec launched a process                *)
(*   proc_alive   the launched process has not exited                      *)
(*   timeout_used the timeout the wait was made with (0: no wait)          *)
(***************************************************************************)
Frame(adapter, exit, value) ==
    [adapter |-> adapter, exit |-> exit, value |-> value, tmp_created |-> FALSE,
     tmp_exists |-> FALSE, spawned |-> FALSE, proc_alive |-> FALSE, timeout_used |-> 0]

(***************************************************************************)
(* backend/providers/cli_provider.py: query_cli                            *)
(***************************************************************************)
\* Mutant of CliTimeout: the caller's timeout always wins.
CliTimeout_CallerWins(config, timeout) == timeout

\* config.get("timeout", timeout): the tool's own timeout when its record
\* has one, the caller's otherwise.
CliTimeout(config, timeout) ==
    IF "timeout" \in DOMAIN config THEN config.timeout ELSE timeout

\* config.get("use_output_file", False)
UseOutputFile(config) ==
    IF "use_output_file" \in DOMAIN config THEN config.use_output_file ELSE FALSE

\* The try block: build the command (creating the temporary output file
\* for a tool that uses one), launch the process, wait for it under the
\* timeout, check the exit code, read the output.
CliTryBody(config, cli_timeout, w) ==
    LET f0 == Frame("cli", "return", NoneValue)
        usefile == UseOutputFile(config)
        f1 == IF usefile /\ w.fault # "mktemp"
              THEN [f0 EXCEPT !.tmp_created = TRUE, !.tmp_exists = TRUE]
              ELSE f0
    IN  IF usefile /\ w.fault = "mktemp"
        THEN [f0 EXCEPT !.exit = "Exception"]
        ELSE IF w.fault = "spawn"
        THEN [f1 EXCEPT !.exit = "Exception"]
        ELSE IF w.duration > cli_timeout
        THEN [f1 EXCEPT !.exit = "TimeoutError", !.spawned = TRUE, !.proc_alive = TRUE,
                         !.timeout_used = cli_timeout]
        ELSE IF w.returncode # 0
        THEN [f1 EXCEPT !.value = ErrorDict("Error: CLI failed"), !.spawned = TRUE,
                         !.timeout_used = cli_timeout]
        ELSE IF usefile /\ w.fault = "read"
        THEN [f1 EXCEPT !.exit = "Exception", !.spawned = TRUE, !.timeout_used = cli_timeout]
        ELSE [f1 EXCEPT !.value = ResponseDict(OutputText), !.spawned = TRUE,
                         !.timeout_used = cli_timeout]

\* except asyncio.TimeoutError: return the error dict
CliExceptTimeoutError(f) ==
    IF f.exit = "TimeoutError"
    THEN [f EXCEPT !.exit = "return", !.value = ErrorDict("Error: CLI timed out")]
    ELSE f

\* Mutant of CliExceptException: the clause is missing, the exception
\* propagates.
CliExceptException_Missing(f) == f

\* except Exception as e: return the error dict (it catches whatever the
\* clause before it let pass)
CliExceptException(f) ==
    IF f.exit # "return"
    THEN [f EXCEPT !.exit = "return", !.value = ErrorDict("Error: Error executing CLI")]
    ELSE f

\* Mutant of CliFinally: the file is removed on a normal return only.
CliFinally_OnReturnOnly(f) ==
    IF f.exit = "return" /\ f.value.error = FALSE /\ f.tmp_created /\ f.tmp_exists
    THEN [f EXCEPT !.tmp_exists = FALSE]
    ELSE f

\* finally: if output_file and os.path.exists(output_file.name): os.unlink(...)
CliFinally(f) ==
    IF f.tmp_created /\ f.tmp_exists THEN [f EXCEPT !.tmp_exists = FALSE] ELSE f

\* The lookup of the tool record: cli_name not in CLI_COMMANDS returns
\* the error dict at once.
CliUnknown(cli_name) == cli_name \notin DOMAIN CLI_COMMANDS

\* Mutant of CliNotFound: the search-path check is left out.
CliNotFound_Unchecked(config, w) == FALSE

\* if not shutil.which(command): return the error dict
CliNotFound(config, w) == ~w.which

query_cli(cli_name, timeout, w) ==
    IF CliUnknown(cli_name)
    THEN Frame("cli", "return", ErrorDict("Error: Unknown CLI"))
    ELSE LET config == CLI_COMMANDS[cli_name]
             cli_timeout == CliTimeout(config, timeout)
         IN  IF CliNotFound(config, w)
             THEN Frame("cli", "return", ErrorDict("Error: CLI command not found in PATH"))
             ELSE CliFinally(CliExceptException(CliExceptTimeoutError(
                      CliTryBody(config, cli_timeout, w))))

(***************************************************************************)
(* The hosted-HTTP adapters: query_openai, query_anthropic,                *)
(* query_openrouter.  All three check the credential, post inside a try    *)
(* block and return None from both except clauses.                         *)
(***************************************************************************)
\* The try block: post, raise_for_status, decode the JSON body.
HttpTryBody(adapter, w) ==
    IF w.http = "status_error"
    THEN Frame(adapter, "HTTPStatusError", NoneValue)
    ELSE IF w.http \in {"transport_error", "timeout", "decode_error"}
    THEN Frame(adapter, "Exception", NoneValue)
    ELSE Frame(adapter, "return", ResponseDict(OutputText))

\* Mutant of HttpExceptStatusError: an empty response instead of None.
HttpExceptStatusError_EmptyResponse(f) ==
    IF f.exit = "HTTPStatusError"
    THEN [f EXCEPT !.exit = "return", !.value = ResponseDict("")]
    ELSE f

\* except httpx.HTTPStatusError as e: return None
HttpExceptStatusError(f) ==
    IF f.exit = "HTTPStatusError" THEN [f EXCEPT !.exit = "return", !.value = NoneValue] ELSE f

\* Mutant of HttpExceptException: only HTTPStatusError is handled.
HttpExceptException_Missing(f) == f

\* except Exception as e: return None (it catches whatever the clause
\* before it let pass)
HttpExceptException(f) ==
    IF f.exit # "return" THEN [f EXCEPT !.exit = "return", !.value = NoneValue] ELSE f

\* if not <PROVIDER>_API_KEY: return None
HttpNoKey(adapter, configured) == adapter \notin configured

query_openai(configured, timeout, w) ==
    IF HttpNoKey("openai", configured)
    THEN Frame("openai", "return", NoneValue)
    ELSE HttpExceptException(HttpExceptStatusError(HttpTryBody("openai", w)))

query_anthropic(configured, timeout, w) ==
    IF HttpNoKey("anthropic", configured)
    THEN Frame("anthropic", "return", NoneValue)
    ELSE HttpExceptException(HttpExceptStatusError(HttpTryBody("anthropic", w)))

query_openrouter(configured, timeout, w) ==
    IF HttpNoKey("openrouter", configured)
    THEN Frame("openrouter", "return", NoneValue)
    ELSE HttpExceptException(HttpExceptStatusError(HttpTryBody("openrouter", w)))

\* Mutant of parse_model_identifier: the remainder after "cli:" is split at
\* its first "/" like any other identifier.
parse_model_identifier_SplitCli(model) ==
    IF StartsWith(model, S_cli_prefix)
    THEN LET cli_name == SliceFrom(model, 4)
         IN  IF Contains(cli_name, "/")
             THEN <<S_cli, SplitHead(cli_name, "/"), SplitTail(cli_name, "/")>>
             ELSE <<S_cli, cli_name, cli_name>>
    ELSE IF StartsWith(model, S_openrouter_prefix)
    THEN LET remaining == SliceFrom(model, 11)
         IN  IF Contains(remaining, "/")
             THEN <<S_openrouter, SplitHead(remaining, "/"), SplitTail(remaining, "/")>>
             ELSE <<S_openrouter, S_unknown, remaining>>
    ELSE LET provider == IF Contains(model, "/") THEN SplitHead(model, "/") ELSE S_unknown
             model_name == IF Contains(model, "/") THEN SplitTail(model, "/") ELSE model
         IN  IF provider \in DIRECT_PROVIDERS
             THEN <<provider, provider, model_name>>
             ELSE <<S_openrouter, provider, model_name>>

\* Mutant of parse_model_identifier: "openrouter:" is stripped and the rest
\* is parsed by the general rule, direct providers included.
parse_model_identifier_StripOpenrouter(model) ==
    IF StartsWith(model, S_cli_prefix)
    THEN LET cli_name == SliceFrom(model, 4) IN <<S_cli, cli_name, cli_name>>
    ELSE LET rest == IF StartsWith(model, S_openrouter_prefix)
                     THEN SliceFrom(model, 11) ELSE model
             provider == IF Contains(rest, "/") THEN SplitHead(rest, "/") ELSE S_unknown
             model_name == IF Contains(rest, "/") THEN SplitTail(rest, "/") ELSE rest
         IN  IF provider \in DIRECT_PROVIDERS
             THEN <<provider, provider, model_name>>
             ELSE <<S_openrouter, provider, model_name>>

(***************************************************************************)
(* backend/providers/router.py                                             *)
(***************************************************************************)
\* parse_model_identifier: <<route_to, provider, model_name>>
parse_model_identifier(model) ==
    IF StartsWith(model, S_cli_prefix)
    THEN LET cli_name == SliceFrom(model, 4) IN <<S_cli, cli_name, cli_name>>
    ELSE IF StartsWith(model, S_openrouter_prefix)
    THEN LET remaining == SliceFrom(model, 11)
         IN  IF Contains(remaining, "/")
             THEN <<S_openrouter, SplitHead(remaining, "/"), SplitTail(remaining, "/")>>
             ELSE <<S_openrouter, S_unknown, remaining>>
    ELSE LET provider == IF Contains(model, "/") THEN SplitHead(model, "/") ELSE S_unknown
             model_name == IF Contains(model, "/") THEN SplitTail(model, "/") ELSE model
         IN  IF provider \in DIRECT_PROVIDERS
             THEN <<provider, provider, model_name>>
             ELSE <<S_openrouter, provider, model_name>>

\* timeout: float = 120.0, the default of query_model (and of each adapter)
DefaultTimeout == 120

\* The if/elif chain of query_model: the adapter it selects and the name
\* it passes to it (the tool name, the model name, or for the proxy the
\* identifier without its "openrouter:" prefix).
Dispatch(model) ==
    LET parsed == parse_model_identifier(model)
        route_to == parsed[1]
    IN  IF route_to = S_cli THEN [adapter |-> "cli", arg |-> parsed[2]]
        ELSE IF route_to = S_openai THEN [adapter |-> "openai", arg |-> parsed[3]]
        ELSE IF route_to = S_anthropic THEN [adapter |-> "anthropic", arg |-> parsed[3]]
        ELSE [adapter |-> "openrouter",
              arg |-> IF StartsWith(model, S_openrouter_prefix)
                      THEN SliceFrom(model, 11) ELSE model]

\* await query_<adapter>(arg, messages, timeout)
AdapterCall(d, configured, timeout, w) ==
    IF d.adapter = "cli" THEN query_cli(d.arg, timeout, w)
    ELSE IF d.adapter = "openai" THEN query_openai(configured, timeout, w)
    ELSE IF d.adapter = "anthropic" THEN query_anthropic(configured, timeout, w)
    ELSE query_openrouter(configured, timeout, w)

\* Mutant of Invocations: a failed answer is retried once.
Invocations_RetryOnFailure(model, configured, timeout, w) ==
    LET d == Dispatch(model)
        first == AdapterCall(d, configured, timeout, w)
    IN  IF first.value.py = "None" \/ first.value.error
        THEN [invoked |-> <<d, d>>, frame |-> AdapterCall(d, configured, timeout, HealthyWorld)]
        ELSE [invoked |-> <<d>>, frame |-> first]

\* One call of query_model: the adapter invocations it makes, in order, and
\* the frame it ends with.  Each branch is one `return await`.
Invocations(model, configured, timeout, w) ==
    LET d == Dispatch(model)
    IN  [invoked |-> <<d>>, frame |-> AdapterCall(d, configured, timeout, w)]

\* query_model: parse the identifier and await the adapter it routes to.
query_model(model, configured, timeout, w) ==
    Invocations(model, configured, timeout, w).frame

\* The credential the adapter of a route reads.
KeyOf(route_to) ==
    IF route_to = S_openai THEN "openai"
    ELSE IF route_to = S_anthropic THEN "anthropic"
    ELSE "openrouter"

\* The worlds a call to this identifier can meet: a tool that is not
\* configured and a provider without a credential consult nothing.
Worlds(model, configured) ==
    LET parsed == parse_model_identifier(model)
    IN  IF parsed[1] = S_cli
        THEN IF parsed[2] \in DOMAIN CLI_COMMANDS
             THEN CliWorlds(UseOutputFile(CLI_COMMANDS[parsed[2]]))
             ELSE {HealthyWorld}
        ELSE IF KeyOf(parsed[1]) \in configured THEN HttpWorlds ELSE {HealthyWorld}

\* Mutant of ZipDict: the entries of failed (None) responses are left out.
ZipDict_DropNone(models, responses) ==
    LET kept == {i \in 1..Len(models) : responses[i].py # "None"}
    IN  [m \in {models[i] : i \in kept} |->
            responses[CHOOSE i \in kept : models[i] = m /\ \A j \in kept : j > i => models[j] # m]]

\* {model: response for model, response in zip(models, responses)}: a dict
\* keyed by identifier; a later pair with the same key replaces an earlier.
ZipDict(models, responses) ==
    [m \in Range(models) |->
        responses[CHOOSE i \in 1..Len(models) :
                     models[i] = m /\ \A j \in (i + 1)..Len(models) : models[j] # m]]

(***************************************************************************)
(* Model identifiers the runs are started with.                            *)
(***************************************************************************)
M_cli_codex == S_cli_prefix \o S_codex
M_cli_gemini == S_cli_prefix \o S_gemini
M_cli_missing == S_cli_prefix \o <<"x">>
M_openai == S_openai \o <<"/", "m">>
M_anthropic == S_anthropic \o <<"/", "m">>
M_fallback == <<"g", "/", "m">>

CouncilIds == {M_cli_codex, M_openai}
ChairmanIds == {M_anthropic, M_cli_gemini, M_cli_missing, M_fallback}

\* The credential configurations a process is started with: every key is
\* set in one of them and missing in the other.
KeySets == {{"anthropic"}, {"openai", "openrouter"}}

\* The council lists of at most n identifiers (a list may name one twice).
SeqsUpTo(S, n) == UNION {[1..k -> S] : k \in 1..n}

VARIABLES
    keys,              \* the providers whose API key is configured
    council_models,    \* the stored configuration: the council model list
    chairman_model,    \* the stored configuration: the chairman model
    messages,          \* the stored conversation: its messages, by role
    title,             \* the stored conversation: its title
    is_first_message,  \* send_message_stream: the conversation was empty
    pc,                \* where event_generator is suspended
    events,            \* the events yielded so far, by type
    calls,             \* the backend calls of the stage being awaited
    stage1_results,    \* what stage 1 returned
    stage2_results,    \* what stage 2 returned
    stage3_result,     \* what stage 3 returned
    title_task,        \* the title task: none, running, done, raised
    fault,             \* the step whose exception the driver caught
    probe,             \* a direct use of the router: the identifier and what came of it
    config_file,       \* data/council_config.json: absent, or its content
    imported_config,   \* COUNCIL_MODELS, CHAIRMAN_MODEL: loaded when config.py is imported
    last_saved,        \* what the last update_config that returned was given
    last_read,         \* what the last read of the configuration since then returned
    cli_prompt,        \* query_cli called on its own: the messages and the prompt made of them
    anthropic_call,    \* query_anthropic called on its own: the messages, the payload, the response
    requests,          \* concurrent message requests on one conversation: each one's handler and where it is
    default_models,    \* the list object DEFAULT_COUNCIL_MODELS of config.py, as it is now
    loaded,            \* load_council_config called on its own: what it returned and what the caller did to it
    health             \* the response of health_check, when it was the last request answered

vars == <<keys, council_models, chairman_model, messages, title, is_first_message,
          pc, events, calls, stage1_results, stage2_results, stage3_result,
          title_task, fault, probe, config_file, imported_config, last_saved, last_read,
          cli_prompt, anthropic_call, requests, default_models, loaded, health>>

config_vars == <<keys, council_models, chairman_model>>

\* The adapters and handlers used on their own.
adapter_vars == <<cli_prompt, anthropic_call, requests, default_models, loaded, health>>

\* What the runs of the drivers leave alone.
aux_vars == <<probe, config_file, imported_config, last_saved, last_read, adapter_vars>>

pipeline_vars == <<messages, title, is_first_message, pc, events, calls, stage1_results,
                   stage2_results, stage3_result, title_task, fault>>

(***************************************************************************)
(* backend/config.py: the council configuration file.  A JSON document is  *)
(* a tagged value; an object is the sequence of its key/value pairs as     *)
(* written.                                                                *)
(***************************************************************************)
JsonString(str) == [json |-> "string", value |-> str, items |-> <<>>, pairs |-> <<>>]
JsonArray(items) == [json |-> "array", value |-> <<>>, items |-> items, pairs |-> <<>>]
JsonObject(pairs) == [json |-> "object", value |-> <<>>, items |-> <<>>, pairs |-> pairs]

\* The file does not exist; the file does not hold a JSON document.
NoFile == [json |-> "absent", value |-> <<>>, items |-> <<>>, pairs |-> <<>>]
InvalidFile == [json |-> "invalid", value |-> <<>>, items |-> <<>>, pairs |-> <<>>]

\* json.dump of a list of strings and of a string
JsonDumpList(list) == JsonArray([i \in 1..Len(list) |-> JsonString(list[i])])

\* json.load of an array of strings and of a string
JsonLoadValue(doc) ==
    IF doc.json = "array" THEN [i \in 1..Len(doc.items) |-> doc.items[i].value]
    ELSE doc.value

\* config.get(key, default) on the loaded object
JsonGet(doc, key, default) ==
    IF \E i \in 1..Len(doc.pairs) : doc.pairs[i][1] = key
    THEN JsonLoadValue(doc.pairs[CHOOSE i \in 1..Len(doc.pairs) :
                                    /\ doc.pairs[i][1] = key
                                    /\ \A j \in (i + 1)..Len(doc.pairs) : doc.pairs[j][1] # key][2])
    ELSE default

DEFAULT_COUNCIL_MODELS == <<M_cli_codex, M_cli_gemini>>
DEFAULT_CHAIRMAN_MODEL == M_anthropic

\* The file exists and cannot be opened or read (IOError).
UnreadableFile == [json |-> "unreadable", value |-> <<>>, items |-> <<>>, pairs |-> <<>>]

\* The result of load_council_config: how it is left, the pair returned,
\* and whether the list returned is the DEFAULT_COUNCIL_MODELS object
\* itself rather than a copy of it.
LoadFrame(exit, value, shares_default) ==
    [exit |-> exit, value |-> value, shares_default |-> shares_default]

\* if os.path.exists(CONFIG_FILE): try: open, json.load, return the two
\* config.get.  Reaching the end of the if statement is exit "pass".
LoadTryBody(file) ==
    IF file.json = "absent" THEN LoadFrame("pass", <<>>, FALSE)
    ELSE IF file.json = "unreadable" THEN LoadFrame("IOError", <<>>, FALSE)
    ELSE IF file.json = "invalid" THEN LoadFrame("JSONDecodeError", <<>>, FALSE)
    ELSE IF file.json = "object"
    THEN LoadFrame("return",
                   <<JsonGet(file, "council_models", default_models),
                     JsonGet(file, "chairman_model", DEFAULT_CHAIRMAN_MODEL)>>,
                   \A i \in 1..Len(file.pairs) : file.pairs[i][1] # "council_models")
    ELSE LoadFrame("AttributeError", <<>>, FALSE)

\* except (json.JSONDecodeError, IOError): pass
LoadExcept(f) ==
    IF f.exit \in {"JSONDecodeError", "IOError"} THEN [f EXCEPT !.exit = "pass"] ELSE f

\* return DEFAULT_COUNCIL_MODELS.copy(), DEFAULT_CHAIRMAN_MODEL
LoadDefaults(f) ==
    IF f.exit = "pass"
    THEN LoadFrame("return", <<default_models, DEFAULT_CHAIRMAN_MODEL>>, FALSE)
    ELSE f

\* load_council_config: the pair from the file, or the defaults.
load_council_config(file) == LoadDefaults(LoadExcept(LoadTryBody(file)))

\* save_council_config: the content the file is given
save_council_config(models, chairman) ==
    JsonObject(<<<<"council_models", JsonDumpList(models)>>,
                 <<"chairman_model", JsonString(chairman)>>>>)

\* Mutant of get_council_models: the list loaded at import time is served.
get_council_models_Imported(file) == imported_config[1]

get_council_models(file) == load_council_config(file).value[1]

get_chairman_model(file) == load_council_config(file).value[2]

NoConfig == [set |-> FALSE, council_models |-> <<>>, chairman_model |-> <<>>]
NoRead == [by |-> "none", council_models |-> <<>>, chairman_model |-> <<>>]
NoProbe == [model |-> <<>>, step |-> "none", parsed |-> <<>>, invoked |-> <<>>,
            adapter |-> "none"]
NoHealth ==
    [status |-> "none", all_ready |-> FALSE, council_models |-> <<>>,
     chairman_model |-> [identifier |-> <<>>, type |-> <<>>, ready |-> FALSE],
     api_keys |-> {}, cli_tools |-> {}]
NoLoad ==
    [step |-> "none", exit |-> "none", returned |-> <<<<>>, <<>>>>, models |-> <<>>,
     shares_default |-> FALSE, mutations |-> 0]
NoRequests == <<>>
NoAnthropicCall ==
    [messages |-> <<>>, step |-> "none", has_system |-> FALSE, system |-> <<>>,
     api_messages |-> <<>>, blocks |-> <<>>, content |-> <<>>, has_reasoning |-> FALSE,
     reasoning |-> <<>>]
NoPrompt == [messages |-> <<>>, step |-> "none", prompt_parts |-> <<>>, prompt |-> <<>>]

(***************************************************************************)
(* query_models_parallel: one query_model coroutine per list element, all  *)
(* started together and awaited with asyncio.gather.                       *)
(***************************************************************************)
PendingFrame == Frame("none", "pending", NoneValue)

\* tasks = [query_model(model, messages) for model in models]: every call
\* is given the same messages, and no timeout is passed, so each call runs
\* with query_model's default.
IssueCalls(models, msgs, timeout) ==
    [i \in 1..Len(models) |->
        [model |-> models[i], messages |-> msgs, timeout |-> timeout, done |-> FALSE,
         world |-> HealthyWorld, invoked |-> <<>>, frame |-> PendingFrame]]

\* asyncio.gather(*tasks) without return_exceptions: it returns when every
\* task has returned, and raises as soon as one task has raised.
GatherRaised(cs) == \E i \in DOMAIN cs : cs[i].done /\ cs[i].frame.exit # "return"
\* Mutant of GatherReturned: the gather ends at the first failed response.
GatherReturned_FirstFailure(cs) ==
    \/ \A i \in DOMAIN cs : cs[i].done /\ cs[i].frame.exit = "return"
    \/ \E i \in DOMAIN cs : cs[i].done /\ (cs[i].frame.value.py = "None" \/ cs[i].frame.value.error)

GatherReturned(cs) == \A i \in DOMAIN cs : cs[i].done /\ cs[i].frame.exit = "return"
\* Mutant of GatherResumes: the await ends with the first call that ends.
GatherResumes_FirstCompleted(cs) == \E i \in DOMAIN cs : cs[i].done
GatherResumes(cs) == GatherRaised(cs) \/ GatherReturned(cs)

\* The mapping query_models_parallel returns once gather has returned.
query_models_parallel(cs) ==
    ZipDict([i \in DOMAIN cs |-> cs[i].model], [i \in DOMAIN cs |-> cs[i].frame.value])

(***************************************************************************)
(* backend/council.py, from the specification: a stage turns each backend  *)
(* response into a QueryResult; a response that is None or an error dict   *)
(* is a failed one.                                                        *)
(***************************************************************************)
Failed(value) == value.py = "None" \/ value.error

StageResult(responses) == [m \in DOMAIN responses |-> [failed |-> Failed(responses[m])]]

\* The timeouts the chairman query may be made with.
CallerTimeouts == {30, DefaultTimeout}

\* The messages of a stage, by what the claims need of them: the labels of
\* the anonymized answers the prompt holds and the model identifiers it
\* names.
QuestionPrompt == [kind |-> "question", labels |-> {}, identifiers |-> {}]

\* The anonymization map of a ranking round: each Stage 1 entry gets the
\* ordinal of its model in the configured council order.
AnonymizationMap ==
    [m \in DOMAIN stage1_results |->
        CHOOSE i \in 1..Len(council_models) :
            council_models[i] = m /\ \A j \in 1..(i - 1) : council_models[j] # m]

\* The ranking prompt: the question and all labelled answers, no identifier.
RankingPrompt ==
    [kind |-> "ranking", labels |-> {AnonymizationMap[m] : m \in DOMAIN AnonymizationMap}, identifiers |-> {}]

\* The synthesis prompt: the answers under their real identifiers.
SynthesisPrompt ==
    [kind |-> "synthesis", labels |-> {}, identifiers |-> DOMAIN stage1_results]

\* Stage 1 and stage 2: query_many over the configured council, read from
\* the configuration when the stage starts.
StageFanout(msgs) == IssueCalls(council_models, msgs, DefaultTimeout)

\* Stage 3: one query of the chairman, with the timeout t.
ChairmanQuery(t) == IssueCalls(<<chairman_model>>, SynthesisPrompt, t)

NoResult == [failed |-> FALSE]

(***************************************************************************)
(* backend/main.py: send_message_stream and its event_generator            *)
(***************************************************************************)
Init ==
    /\ keys \in KeySets
    /\ council_models \in SeqsUpTo(CouncilIds, MaxCouncil)
    /\ chairman_model \in ChairmanIds
    /\ messages \in {<<>>, <<"user", "assistant">>}
    /\ title = "New Conversation"
    /\ is_first_message = FALSE
    /\ pc = "idle"
    /\ events = <<>>
    /\ calls = <<>>
    /\ stage1_results = <<>>
    /\ stage2_results = <<>>
    /\ stage3_result = NoResult
    /\ title_task = "none"
    /\ fault = "none"
    /\ probe = NoProbe
    /\ config_file = save_council_config(council_models, chairman_model)
    /\ imported_config = <<council_models, chairman_model>>
    /\ last_saved = NoConfig
    /\ last_read = NoRead
    /\ cli_prompt = NoPrompt
    /\ anthropic_call = NoAnthropicCall
    /\ requests = NoRequests
    /\ health = NoHealth
    /\ default_models = DEFAULT_COUNCIL_MODELS
    /\ loaded = NoLoad

\* yield one event and suspend at `at`
Yield(type, at) ==
    /\ events' = Append(events, type)
    /\ pc' = at

\* Mutant of CatchError: the exception is swallowed, no event is yielded.
CatchError_Silent(step) ==
    /\ pc' = "y_error"
    /\ fault' = step
    /\ UNCHANGED events

\* except Exception as e: yield the error event
CatchError(step) ==
    /\ Yield("error", "y_error")
    /\ fault' = step

\* send_message_stream up to the creation of the generator: the
\* conversation is read and is_first_message computed from it.
Request ==
    /\ pc = "idle"
    /\ is_first_message' = (Len(messages) = 0)
    /\ pc' = "start"
    /\ UNCHANGED <<aux_vars, config_vars, messages, title, events, calls, stage1_results,
                   stage2_results, stage3_result, title_task, fault>>

\* Mutant of StartRun: the title task is started for every message.
StartRun_AlwaysTitle ==
    /\ pc = "start"
    /\ \E ok \in BOOLEAN :
        IF ok
        THEN /\ messages' = Append(messages, "user")
             /\ title_task' = "running"
             /\ Yield("stage1_start", "y_stage1_start")
             /\ UNCHANGED fault
        ELSE /\ CatchError("add_user_message")
             /\ UNCHANGED <<messages, title_task>>
    /\ UNCHANGED <<aux_vars, config_vars, title, is_first_message, calls, stage1_results,
                   stage2_results, stage3_result>>

\* Store the user message, start the title task for a first message and
\* yield stage1_start.
StartRun ==
    /\ pc = "start"
    /\ \E ok \in BOOLEAN :
        IF ok
        THEN /\ messages' = Append(messages, "user")
             /\ title_task' = IF is_first_message THEN "running" ELSE "none"
             /\ Yield("stage1_start", "y_stage1_start")
             /\ UNCHANGED fault
        ELSE /\ CatchError("add_user_message")
             /\ UNCHANGED <<messages, title_task>>
    /\ UNCHANGED <<aux_vars, config_vars, title, is_first_message, calls, stage1_results,
                   stage2_results, stage3_result>>

\* await stage1_collect_responses(...): the fan-out over the council.
Stage1Call ==
    /\ pc = "y_stage1_start"
    /\ calls' = StageFanout(QuestionPrompt)
    /\ pc' = "await_stage1"
    /\ UNCHANGED <<aux_vars, config_vars, messages, title, is_first_message, events,
                   stage1_results, stage2_results, stage3_result, title_task, fault>>

\* One backend call of the awaited stage runs to its end.  (When the stage
\* is left by an exception its calls are no longer awaited by anyone.)
ResolveCall(i) ==
    /\ pc \in {"await_stage1", "await_stage2", "await_stage3"}
    /\ ~calls[i].done
    /\ \E w \in Worlds(calls[i].model, keys) :
        LET run == Invocations(calls[i].model, keys, calls[i].timeout, w)
        IN  calls' = [calls EXCEPT ![i].done = TRUE,
                                   ![i].world = w,
                                   ![i].invoked = run.invoked,
                                   ![i].frame = run.frame]
    /\ UNCHANGED <<aux_vars, config_vars, messages, title, is_first_message, pc, events,
                   stage1_results, stage2_results, stage3_result, title_task, fault>>

\* Stage 1 returns and stage1_complete is yielded; an exception of the
\* stage (one a call let escape, or one of the stage's own) is caught.
Stage1Complete ==
    /\ pc = "await_stage1"
    /\ GatherResumes(calls)
    /\ \E ok \in BOOLEAN :
        IF ok /\ ~GatherRaised(calls)
        THEN /\ stage1_results' = StageResult(query_models_parallel(calls))
             /\ Yield("stage1_complete", "y_stage1_complete")
             /\ UNCHANGED <<fault, calls>>
        ELSE /\ CatchError(IF GatherRaised(calls) THEN "backend_exception" ELSE "stage1")
             /\ calls' = <<>>
             /\ UNCHANGED stage1_results
    /\ UNCHANGED <<aux_vars, config_vars, messages, title, is_first_message,
                   stage2_results, stage3_result, title_task>>

\* Mutant of Stage2Start: the stage2_start event is not yielded.
Stage2Start_NoYield ==
    /\ pc = "y_stage1_complete"
    /\ pc' = "y_stage2_start"
    /\ UNCHANGED <<aux_vars, config_vars, messages, title, is_first_message, events, calls,
                   stage1_results, stage2_results, stage3_result, title_task, fault>>

\* yield stage2_start
Stage2Start ==
    /\ pc = "y_stage1_complete"
    /\ Yield("stage2_start", "y_stage2_start")
    /\ UNCHANGED <<aux_vars, config_vars, messages, title, is_first_message, calls,
                   stage1_results, stage2_results, stage3_result, title_task, fault>>

\* await stage2_collect_rankings(...): the fan-out of the ranking prompt.
Stage2Call ==
    /\ pc = "y_stage2_start"
    /\ calls' = StageFanout(RankingPrompt)
    /\ pc' = "await_stage2"
    /\ UNCHANGED <<aux_vars, config_vars, messages, title, is_first_message, events,
                   stage1_results, stage2_results, stage3_result, title_task, fault>>

\* Stage 2 returns, the aggregate rankings are computed and
\* stage2_complete is yielded.
Stage2Complete ==
    /\ pc = "await_stage2"
    /\ GatherResumes(calls)
    /\ \E ok \in BOOLEAN :
        IF ok /\ ~GatherRaised(calls)
        THEN /\ stage2_results' = StageResult(query_models_parallel(calls))
             /\ Yield("stage2_complete", "y_stage2_complete")
             /\ UNCHANGED <<fault, calls>>
        ELSE /\ CatchError(IF GatherRaised(calls) THEN "backend_exception" ELSE "stage2")
             /\ calls' = <<>>
             /\ UNCHANGED stage2_results
    /\ UNCHANGED <<aux_vars, config_vars, messages, title, is_first_message,
                   stage1_results, stage3_result, title_task>>

\* yield stage3_start
Stage3Start ==
    /\ pc = "y_stage2_complete"
    /\ Yield("stage3_start", "y_stage3_start")
    /\ UNCHANGED <<aux_vars, config_vars, messages, title, is_first_message, calls,
                   stage1_results, stage2_results, stage3_result, title_task, fault>>

\* await stage3_synthesize_final(...): the single query of the chairman.
Stage3Call ==
    /\ pc = "y_stage3_start"
    /\ \E t \in CallerTimeouts : calls' = ChairmanQuery(t)
    /\ pc' = "await_stage3"
    /\ UNCHANGED <<aux_vars, config_vars, messages, title, is_first_message, events,
                   stage1_results, stage2_results, stage3_result, title_task, fault>>

\* Stage 3 returns and stage3_complete is yielded.
Stage3Complete ==
    /\ pc = "await_stage3"
    /\ GatherResumes(calls)
    /\ \E ok \in BOOLEAN :
        IF ok /\ ~GatherRaised(calls)
        THEN /\ stage3_result' = [failed |-> Failed(calls[1].frame.value)]
             /\ Yield("stage3_complete", "y_stage3_complete")
             /\ UNCHANGED <<fault, calls>>
        ELSE /\ CatchError(IF GatherRaised(calls) THEN "backend_exception" ELSE "stage3")
             /\ calls' = <<>>
             /\ UNCHANGED stage3_result
    /\ UNCHANGED <<aux_vars, config_vars, messages, title, is_first_message,
                   stage1_results, stage2_results, title_task>>

\* The title task, started by StartRun, runs beside the stages and ends
\* with a title or with an exception.
TitleTaskRun ==
    /\ title_task = "running"
    /\ \E r \in {"done", "raised"} : title_task' = r
    /\ UNCHANGED <<aux_vars, config_vars, messages, title, is_first_message, pc, events, calls,
                   stage1_results, stage2_results, stage3_result, fault>>

\* Mutant of AwaitTitle: the await resumes only for a task that ended with
\* a title; the exception of the task is never delivered.
AwaitTitle_NeverRaises ==
    /\ pc = "y_stage3_complete"
    /\ title_task = "done"
    /\ \E ok \in BOOLEAN :
        IF ok
        THEN /\ title' = "generated"
             /\ Yield("title_complete", "y_title_complete")
             /\ UNCHANGED fault
        ELSE /\ CatchError("update_conversation_title")
             /\ UNCHANGED title
    /\ UNCHANGED <<aux_vars, config_vars, messages, is_first_message, calls, stage1_results,
                   stage2_results, stage3_result, title_task>>

\* if title_task: title = await title_task; store it; yield title_complete
AwaitTitle ==
    /\ pc = "y_stage3_complete"
    /\ title_task \in {"done", "raised"}
    /\ IF title_task = "raised"
       THEN /\ CatchError("title_task")
            /\ UNCHANGED title
       ELSE \E ok \in BOOLEAN :
            IF ok
            THEN /\ title' = "generated"
                 /\ Yield("title_complete", "y_title_complete")
                 /\ UNCHANGED fault
            ELSE /\ CatchError("update_conversation_title")
                 /\ UNCHANGED title
    /\ UNCHANGED <<aux_vars, config_vars, messages, is_first_message, calls, stage1_results,
                   stage2_results, stage3_result, title_task>>

\* Store the assistant message and yield complete.
SaveAssistant ==
    /\ \/ pc = "y_title_complete"
       \/ pc = "y_stage3_complete" /\ title_task = "none"
    /\ \E ok \in BOOLEAN :
        IF ok
        THEN /\ messages' = Append(messages, "assistant")
             /\ Yield("complete", "y_complete")
             /\ UNCHANGED fault
        ELSE /\ CatchError("add_assistant_message")
             /\ UNCHANGED messages
    /\ UNCHANGED <<aux_vars, config_vars, title, is_first_message, calls, stage1_results,
                   stage2_results, stage3_result, title_task>>

\* The generator returns after its terminal event; its locals are gone.
Finish ==
    /\ pc \in {"y_complete", "y_error"}
    /\ pc' = "done"
    /\ calls' = <<>>
    /\ stage1_results' = <<>>
    /\ stage2_results' = <<>>
    /\ stage3_result' = NoResult
    /\ UNCHANGED <<aux_vars, config_vars, messages, title, is_first_message, events,
                   title_task, fault>>

(***************************************************************************)
(* backend/main.py: send_message, the driver without events.  An exception *)
(* of a step leaves the handler (the framework answers 500); nothing       *)
(* catches it.  run_full_council is backend/council.py: from the           *)
(* specification it runs the three stages and returns their results, or    *)
(* lets an orchestration fault escape.                                     *)
(***************************************************************************)
\* The handler is entered: the conversation is read and is_first_message
\* computed from it.
SendRequest ==
    /\ pc = "idle"
    /\ is_first_message' = (Len(messages) = 0)
    /\ pc' = "s_start"
    /\ UNCHANGED <<aux_vars, config_vars, messages, title, events, calls, stage1_results,
                   stage2_results, stage3_result, title_task, fault>>

\* storage.add_user_message(conversation_id, request.content)
SendAddUser ==
    /\ pc = "s_start"
    /\ \E ok \in BOOLEAN :
        IF ok
        THEN /\ messages' = Append(messages, "user")
             /\ pc' = IF is_first_message THEN "s_await_title" ELSE "s_call_council"
        ELSE /\ pc' = "s_raised"
             /\ UNCHANGED messages
    /\ UNCHANGED <<aux_vars, config_vars, title, is_first_message, events, calls, stage1_results,
                   stage2_results, stage3_result, title_task, fault>>

\* title = await generate_conversation_title(request.content)
SendAwaitTitle ==
    /\ pc = "s_await_title"
    /\ \E r \in {"s_update_title", "s_raised"} : pc' = r
    /\ UNCHANGED <<aux_vars, config_vars, messages, title, is_first_message, events, calls,
                   stage1_results, stage2_results, stage3_result, title_task, fault>>

\* storage.update_conversation_title(conversation_id, title)
SendUpdateTitle ==
    /\ pc = "s_update_title"
    /\ \E ok \in BOOLEAN :
        IF ok
        THEN /\ title' = "generated"
             /\ pc' = "s_call_council"
        ELSE /\ pc' = "s_raised"
             /\ UNCHANGED title
    /\ UNCHANGED <<aux_vars, config_vars, messages, is_first_message, events, calls,
                   stage1_results, stage2_results, stage3_result, title_task, fault>>

\* await run_full_council(request.content): the call is made ...
SendCallCouncil ==
    /\ pc = "s_call_council"
    /\ pc' = "s_await_council"
    /\ UNCHANGED <<aux_vars, config_vars, messages, title, is_first_message, events, calls,
                   stage1_results, stage2_results, stage3_result, title_task, fault>>

\* ... and returns the results of the three stages, or raises.
SendCouncilReturns ==
    /\ pc = "s_await_council"
    /\ \E r \in {"s_add_assistant", "s_raised"} : pc' = r
    /\ UNCHANGED <<aux_vars, config_vars, messages, title, is_first_message, events, calls,
                   stage1_results, stage2_results, stage3_result, title_task, fault>>

\* storage.add_assistant_message(...) and the return of the response.
SendAddAssistant ==
    /\ pc = "s_add_assistant"
    /\ \E ok \in BOOLEAN :
        IF ok
        THEN /\ messages' = Append(messages, "assistant")
             /\ pc' = "s_returned"
        ELSE /\ pc' = "s_raised"
             /\ UNCHANGED messages
    /\ UNCHANGED <<aux_vars, config_vars, title, is_first_message, events, calls, stage1_results,
                   stage2_results, stage3_result, title_task, fault>>

Next ==
    \/ Request
    \/ StartRun
    \/ Stage1Call
    \/ \E i \in DOMAIN calls : ResolveCall(i)
    \/ Stage1Complete
    \/ Stage2Start
    \/ Stage2Call
    \/ Stage2Complete
    \/ Stage3Start
    \/ Stage3Call
    \/ Stage3Complete
    \/ TitleTaskRun
    \/ AwaitTitle
    \/ SaveAssistant
    \/ Finish
    \/ SendRequest
    \/ SendAddUser
    \/ SendAwaitTitle
    \/ SendUpdateTitle
    \/ SendCallCouncil
    \/ SendCouncilReturns
    \/ SendAddAssistant

Spec == Init /\ [][Next]_vars

(***************************************************************************)
(* Scheduling.  The event loop resumes a handler or a generator whose      *)
(* awaited step has resolved (the response is read to its end), every      *)
(* backend call resolves, and so does the title task.                      *)
(***************************************************************************)
StreamDriver ==
    \/ StartRun
    \/ Stage1Call
    \/ Stage1Complete
    \/ Stage2Start
    \/ Stage2Call
    \/ Stage2Complete
    \/ Stage3Start
    \/ Stage3Call
    \/ Stage3Complete
    \/ AwaitTitle
    \/ SaveAssistant
    \/ Finish

SendDriver ==
    \/ SendAddUser
    \/ SendAwaitTitle
    \/ SendUpdateTitle
    \/ SendCallCouncil
    \/ SendCouncilReturns
    \/ SendAddAssistant

Fairness ==
    /\ WF_vars(StreamDriver)
    /\ WF_vars(SendDriver)
    /\ WF_vars(TitleTaskRun)
    /\ \A i \in 1..MaxCouncil : WF_vars(i \in DOMAIN calls /\ ResolveCall(i))

\* The runs whose termination is checked: every council, chairman and
\* conversation of Init, started with one of the credential configurations.
LiveInit == Init /\ keys = {"anthropic"}

LiveSpec == LiveInit /\ [][Next]_vars /\ Fairness

(***************************************************************************)
(* Vocabulary of the properties.                                           *)
(***************************************************************************)
StageOrder ==
    <<"stage1_start", "stage1_complete", "stage2_start", "stage2_complete",
      "stage3_start", "stage3_complete">>

Terminal == {"complete", "error"}

TerminalCount == Cardinality({i \in DOMAIN events : events[i] \in Terminal})

LastEvent == IF events = <<>> THEN "" ELSE events[Len(events)]

\* The events before the terminal one.
NonTerminalEvents ==
    IF LastEvent \in Terminal THEN SubSeq(events, 1, Len(events) - 1) ELSE events

\* The positions at which the driver holds the result of a fan-out whose
\* calls are still in `calls`.
AfterStage1 == {"y_stage1_complete", "y_stage2_start"}
AfterStage2 == {"y_stage2_complete", "y_stage3_start"}
AfterStage3 == {"y_stage3_complete", "y_title_complete", "y_complete"}

\* The steps of the driver itself whose exception ends a run.
OrchestrationFaults ==
    {"add_user_message", "stage1", "stage2", "stage3", "title_task",
     "update_conversation_title", "add_assistant_message"}

\* The routing of every identifier the model draws, computed once.
Parsed == [m \in CouncilIds \cup ChairmanIds |-> parse_model_identifier(m)]

Route(c) == Parsed[c.model][1]
CliName(c) == Parsed[c.model][2]
IsCli(c) == Route(c) = S_cli
KnownTool(c) == IsCli(c) /\ CliName(c) \in DOMAIN CLI_COMMANDS

\* What goes wrong for a call, told from the world alone: the tool is not
\* configured, the credential is missing, or the world is not the healthy one.
CallFails(c) ==
    \/ c.world # HealthyWorld
    \/ IsCli(c) /\ ~KnownTool(c)
    \/ ~IsCli(c) /\ KeyOf(Route(c)) \notin keys

\* Call i is the last call of the list made with its identifier.
IsLastFor(i) == \A j \in DOMAIN calls : j > i => calls[j].model # calls[i].model

DoneCalls == {i \in DOMAIN calls : calls[i].done}

(***************************************************************************)
(* C1.  The streaming driver emits its non-terminal events in the fixed    *)
(* order stage1_start, stage1_complete, stage2_start, stage2_complete,     *)
(* stage3_start, stage3_complete, then optionally title_complete: the      *)
(* events before the terminal one are always a prefix of that order,       *)
(* complete follows only the whole order, and a run without a fault and    *)
(* without a title emits exactly the six stage events and complete.        *)
(***************************************************************************)
C1_EventOrder ==
    /\ \/ \E k \in 0..Len(StageOrder) : NonTerminalEvents = SubSeq(StageOrder, 1, k)
       \/ NonTerminalEvents = StageOrder \o <<"title_complete">>
    /\ LastEvent = "complete" => Len(NonTerminalEvents) >= Len(StageOrder)
    /\ (pc = "done" /\ fault = "none" /\ ~is_first_message)
          => events = StageOrder \o <<"complete">>

C1_Witness ==
    pc = "done" /\ fault = "none" /\ ~is_first_message
    /\ events = StageOrder \o <<"complete">>

(***************************************************************************)
(* C2.  Every run of the streaming driver emits exactly one terminal       *)
(* event, complete or error: never two, the terminal event is the last     *)
(* event, a run that has ended has one, and every fault of a step ends the *)
(* run with error.                                                         *)
(***************************************************************************)
C2_OneTerminalEvent ==
    /\ TerminalCount <= 1
    /\ TerminalCount = 1 => LastEvent \in Terminal
    /\ pc \in {"y_complete", "y_error", "done"} <=> TerminalCount = 1
    /\ fault # "none" => LastEvent = "error"
    /\ (fault = "none" /\ TerminalCount = 1) => LastEvent = "complete"

C2_Witness ==
    pc = "done" /\ fault = "add_assistant_message" /\ LastEvent = "error"
    /\ TerminalCount = 1 /\ Len(events) > Len(StageOrder)

(***************************************************************************)
(* C3.  A failure of a backend call never becomes a fault of the pipeline: *)
(* no run is ended by an exception of a backend call, an error event comes *)
(* only from a fault of the driver's own steps, and a run without such a   *)
(* fault passes stage 2 and stage 3 and ends with complete whatever        *)
(* backend calls failed.                                                   *)
(***************************************************************************)
C3_BackendFailureIsNoFault ==
    /\ fault # "backend_exception"
    /\ LastEvent = "error" => fault \in OrchestrationFaults
    /\ (pc \in {"y_complete", "done"} /\ fault = "none")
          => /\ LastEvent = "complete"
             /\ SubSeq(events, 1, Len(StageOrder)) = StageOrder

C3_Witness ==
    /\ pc = "y_complete" /\ LastEvent = "complete"
    /\ \A m \in DOMAIN stage1_results : stage1_results[m].failed
    /\ \E m \in DOMAIN stage2_results : stage2_results[m].failed
    /\ stage3_result.failed

\* The pairs of the mapping a resolved fan-out returns.
Returned == query_models_parallel(calls)

FanoutReturned ==
    pc \in {"await_stage1", "await_stage2"} \cup AfterStage1 \cup AfterStage2
    /\ calls # <<>> /\ GatherReturned(calls)

(***************************************************************************)
(* C4 as stated.  query_models_parallel called with N identifiers returns  *)
(* a mapping with exactly N entries.                                       *)
(***************************************************************************)
C4_ExactlyNEntries ==
    FanoutReturned => Cardinality(DOMAIN Returned) = Len(calls)

(***************************************************************************)
(* C4, amended.  query_models_parallel returns a mapping with exactly one  *)
(* entry per distinct input identifier, hence N entries for N pairwise     *)
(* distinct identifiers, whatever mix of the calls succeed, fail or time   *)
(* out: a failed call's identifier still has its entry, marked failed, and *)
(* the stage 1 result has one entry per distinct configured council model. *)
(***************************************************************************)
C4_OneEntryPerIdentifier ==
    /\ FanoutReturned =>
          LET returned == Returned
          IN  /\ DOMAIN returned = {calls[i].model : i \in DOMAIN calls}
              /\ (\A i, j \in DOMAIN calls : i # j => calls[i].model # calls[j].model)
                    => Cardinality(DOMAIN returned) = Len(calls)
              /\ \A i \in DOMAIN calls :
                    (IsLastFor(i) /\ CallFails(calls[i]))
                        => Failed(returned[calls[i].model])
    /\ pc \in AfterStage1 => DOMAIN stage1_results = Range(council_models)

C4_Witness ==
    /\ pc = "y_stage1_complete" /\ Len(calls) = MaxCouncil
    /\ \A i, j \in DOMAIN calls : i # j => calls[i].model # calls[j].model
    /\ \E i \in DOMAIN calls : CallFails(calls[i]) /\ stage1_results[calls[i].model].failed
    /\ \E i \in DOMAIN calls : ~CallFails(calls[i]) /\ ~stage1_results[calls[i].model].failed
    /\ Cardinality(DOMAIN stage1_results) = MaxCouncil

(***************************************************************************)
(* C5 as stated.  Whatever calls of a fan-out fail, every call is awaited  *)
(* to its end and its own result is in the returned mapping under its own  *)
(* identifier.                                                             *)
(***************************************************************************)
C5_OwnResultPresent ==
    FanoutReturned =>
        \A i \in DOMAIN calls :
            calls[i].done /\ Returned[calls[i].model] = calls[i].frame.value

(***************************************************************************)
(* C5, amended.  One call's failure neither cancels nor discards its       *)
(* siblings: the fan-out returns only when every call has run to its end,  *)
(* and the returned mapping holds, under each identifier, the result of    *)
(* the last call made with that identifier -- so every call's own result,  *)
(* unless a later call of the same list names the same identifier.         *)
(***************************************************************************)
C5_SiblingsKeepResults ==
    /\ pc \in AfterStage1 \cup AfterStage2 \cup AfterStage3
          => \A i \in DOMAIN calls : calls[i].done
    /\ FanoutReturned =>
          LET returned == Returned
          IN  \A i \in DOMAIN calls :
                  IsLastFor(i) => returned[calls[i].model] = calls[i].frame.value
    /\ pc \in AfterStage1 =>
          \A i \in DOMAIN calls :
              IsLastFor(i) =>
                  stage1_results[calls[i].model].failed = Failed(calls[i].frame.value)
    /\ pc \in AfterStage2 =>
          \A i \in DOMAIN calls :
              IsLastFor(i) =>
                  stage2_results[calls[i].model].failed = Failed(calls[i].frame.value)

C5_Witness ==
    /\ pc = "y_stage2_complete" /\ Len(calls) = MaxCouncil
    /\ CallFails(calls[1]) /\ Failed(calls[1].frame.value)
    /\ \E j \in DOMAIN calls :
          /\ calls[j].model # calls[1].model
          /\ ~CallFails(calls[j])
          /\ Returned[calls[j].model] = ResponseDict(OutputText)
          /\ ~stage2_results[calls[j].model].failed

TimedOutValue == ErrorDict("Error: CLI timed out")

\* The call was made by the hosted-HTTP adapters.
IsHttp(c) == ~IsCli(c)

(***************************************************************************)
(* C6.  No adapter call and no router query raises to its caller: whatever *)
(* fails while the request is built, the process launched or waited for,   *)
(* or the response decoded, the call returns a value (None or a dict).     *)
(***************************************************************************)
C6_NeverRaises ==
    \A i \in DoneCalls :
        /\ calls[i].frame.exit = "return"
        /\ calls[i].frame.value.py \in {"None", "dict"}

C6_Witness ==
    /\ Len(calls) = MaxCouncil
    /\ \E i \in DoneCalls :
          IsCli(calls[i]) /\ calls[i].world.fault = "spawn" /\ calls[i].frame.exit = "return"
    /\ \E i \in DoneCalls :
          IsHttp(calls[i]) /\ calls[i].world.http = "decode_error"
          /\ calls[i].frame.exit = "return"

C9_TempFileRemoved ==
    \A i \in DoneCalls : ~calls[i].frame.tmp_exists

C9_Witness ==
    \E i \in DoneCalls :
        /\ calls[i].frame.tmp_created /\ ~calls[i].frame.tmp_exists
        /\ calls[i].world.duration > CliToolTimeout
        /\ calls[i].frame.value = TimedOutValue

(***************************************************************************)
(* C10.  A timeout is a local failure of one call.  A launched process is  *)
(* waited for with the tool's configured timeout, whatever timeout the     *)
(* caller supplied (the caller's is used only for a tool record without    *)
(* one); the call whose process outlives it returns the timed-out failure  *)
(* and no other call does; the other calls of the fan-out keep their own   *)
(* results, and the stages after it run.                                   *)
(***************************************************************************)
C10_TimeoutIsLocal ==
    /\ \A i \in DoneCalls :
          KnownTool(calls[i]) =>
              LET config == CLI_COMMANDS[CliName(calls[i])]
                  expected == IF "timeout" \in DOMAIN config THEN config.timeout
                              ELSE calls[i].timeout
              IN  /\ calls[i].frame.spawned => calls[i].frame.timeout_used = expected
                  /\ calls[i].frame.value = TimedOutValue
                        <=> (calls[i].frame.spawned /\ calls[i].world.duration > expected)
                  /\ calls[i].frame.exit = "return"
    /\ \A i \in DoneCalls : ~KnownTool(calls[i]) => calls[i].frame.value # TimedOutValue
    /\ pc \in AfterStage1 =>
          \A j \in DOMAIN calls :
              IsLastFor(j) =>
                  stage1_results[calls[j].model].failed = Failed(calls[j].frame.value)
    /\ fault # "backend_exception"

C10_Witness ==
    /\ pc = "y_stage2_start" /\ Len(calls) = MaxCouncil
    /\ LastEvent = "stage2_start"
    /\ \E i \in DOMAIN calls :
          /\ calls[i].frame.value = TimedOutValue
          /\ calls[i].world.duration > CliToolTimeout
          /\ stage1_results[calls[i].model].failed
    /\ \E j \in DOMAIN calls :
          /\ calls[j].frame.value = ResponseDict(OutputText)
          /\ ~stage1_results[calls[j].model].failed

Started == {"start", "s_start"}
Ended == {"done", "s_returned", "s_raised"}

(***************************************************************************)
(* C11.  Every run terminates: with every backend call and the title task  *)
(* resolving and the handler resumed whenever it can run, a run is left    *)
(* from every position it can be at (an awaited fan-out, an awaited stage, *)
(* the awaited title task, a storage write): a run of the streaming driver *)
(* reaches its end with its terminal event emitted, and a run of           *)
(* send_message returns its response or raises.                            *)
(***************************************************************************)
C11_EveryRunTerminates ==
    (pc \notin {"idle"} \cup Ended)
        ~> (pc \in Ended /\ (pc = "done" => LastEvent \in Terminal))

C11_Witness ==
    /\ pc = "done" /\ is_first_message
    /\ Len(council_models) = MaxCouncil
    /\ title = "generated"
    /\ events = StageOrder \o <<"title_complete", "complete">>

\* The stored conversation as the turn found it.  A behaviour holds one
\* turn, and is_first_message records whether it found the conversation
\* empty.
MessagesBefore == IF is_first_message THEN <<>> ELSE <<"user", "assistant">>
TitleBefore == "New Conversation"

\* The writes of the turn so far: the messages it added and the title it
\* set.
Writes ==
    IF pc = "idle" THEN 0
    ELSE (Len(messages) - Len(MessagesBefore)) + (IF title # TitleBefore THEN 1 ELSE 0)

\* Stage 3 of the turn has returned.
Stage3Returned ==
    \/ \E i \in DOMAIN events : events[i] = "stage3_complete"
    \/ pc \in {"s_add_assistant", "s_returned"}

\* The turn ended by a fault.
Faulted == (pc \in {"y_error", "done"} /\ fault # "none") \/ pc = "s_raised"

(***************************************************************************)
(* C12.  Conversation storage is written once per turn and only after the  *)
(* pipeline has resolved: no write (user message, title, assistant         *)
(* message) happens before Stage 3 has returned, and a turn that completes *)
(* has made exactly one write.                                             *)
(***************************************************************************)
C12_OneWriteAfterPipeline ==
    /\ Writes > 0 => Stage3Returned
    /\ Writes <= 1
    /\ (pc = "s_returned" \/ (pc = "done" /\ fault = "none")) => Writes = 1

(***************************************************************************)
(* C13.  A fault in the middle of a turn (of a stage, of the title task,   *)
(* of a storage write) leaves the stored conversation as the turn found    *)
(* it: no assistant message is stored, and no user message is left stored  *)
(* without the assistant message that answers it.                          *)
(***************************************************************************)
C13_FaultLeavesStorageUntouched ==
    Faulted => (messages = MessagesBefore /\ title = TitleBefore)

AllResolved == calls # <<>> /\ \A i \in DOMAIN calls : calls[i].done

Occurrences(type) == Cardinality({i \in DOMAIN events : events[i] = type})

(***************************************************************************)
(* C14.  Stages never overlap.  The calls of Stage 2 are issued only when  *)
(* every call of Stage 1 has resolved, and the chairman call of Stage 3    *)
(* only when every call of Stage 2 has resolved; while Stage 2 runs the    *)
(* Stage 1 result is complete (an entry for every council model), while    *)
(* Stage 3 runs so are the Stage 1 and Stage 2 results; Stage 3 is one     *)
(* call; and each stage is started once in a run.                          *)
(***************************************************************************)
C14_StagesNeverOverlap ==
    /\ [][(pc' # pc /\ pc' \in {"await_stage2", "await_stage3"})
              => (AllResolved /\ \A i \in DOMAIN calls' : ~calls'[i].done)]_vars
    /\ [](pc \in AfterStage1 \cup AfterStage2 \cup AfterStage3 => AllResolved)
    /\ [](pc \in {"await_stage2"} \cup AfterStage2
              => DOMAIN stage1_results = Range(council_models))
    /\ [](pc \in {"await_stage3"} \cup AfterStage3
              => /\ DOMAIN stage1_results = Range(council_models)
                 /\ DOMAIN stage2_results = Range(council_models)
                 /\ Len(calls) = 1)
    /\ [](\A n \in 1..3 : Occurrences(StageOrder[2 * n - 1]) <= 1)

C14_Witness ==
    /\ pc = "await_stage3" /\ ~calls[1].done
    /\ Len(council_models) = MaxCouncil
    /\ Cardinality(DOMAIN stage1_results) = MaxCouncil
    /\ Cardinality(DOMAIN stage2_results) = MaxCouncil
    /\ \E m \in DOMAIN stage2_results : stage2_results[m].failed

\* The calls in `calls` are those of the Stage 2 ranking fan-out.
InStage2 == pc \in {"await_stage2"} \cup AfterStage2

\* The label the ranking round gave the answer of the backend of call i.
OwnLabel(i) == AnonymizationMap[calls[i].model]

MaxTail == 2

\* An optional marker, a head and a tail over the characters the rules
\* look at.
Markers == {<<>>, S_cli_prefix, S_openrouter_prefix}
Heads == {<<>>, S_openai, S_anthropic, <<"g">>, S_cli, S_openrouter,
          S_cli_prefix, S_openrouter_prefix}
Tails == {<<>>} \cup SeqsUpTo({"/", ":", "m"}, MaxTail)
Identifiers == {mk \o hd \o tl : mk \in Markers, hd \in Heads, tl \in Tails}

ParseInit ==
    /\ keys \in KeySets
    /\ council_models = <<M_cli_codex>>
    /\ chairman_model = M_anthropic
    /\ messages = <<>>
    /\ title = "New Conversation"
    /\ is_first_message = FALSE
    /\ pc = "idle"
    /\ events = <<>>
    /\ calls = <<>>
    /\ stage1_results = <<>>
    /\ stage2_results = <<>>
    /\ stage3_result = NoResult
    /\ title_task = "none"
    /\ fault = "none"
    /\ probe \in {[NoProbe EXCEPT !.model = id, !.step = "new"] : id \in Identifiers}
    /\ config_file = save_council_config(council_models, chairman_model)
    /\ imported_config = <<council_models, chairman_model>>
    /\ last_saved = NoConfig
    /\ last_read = NoRead
    /\ cli_prompt = NoPrompt
    /\ anthropic_call = NoAnthropicCall
    /\ requests = NoRequests
    /\ health = NoHealth
    /\ default_models = DEFAULT_COUNCIL_MODELS
    /\ loaded = NoLoad

\* parse_model_identifier(model)
RouterParse ==
    /\ probe.step = "new"
    /\ probe' = [probe EXCEPT !.step = "parsed",
                              !.parsed = parse_model_identifier(probe.model)]
    /\ UNCHANGED <<config_vars, pipeline_vars, adapter_vars, config_file, imported_config,
                   last_saved, last_read>>

\* await query_model(model, messages)
RouterQuery ==
    /\ probe.step = "parsed"
    /\ \E w \in Worlds(probe.model, keys) :
          LET run == Invocations(probe.model, keys, DefaultTimeout, w)
          IN  probe' = [probe EXCEPT !.step = "queried",
                                     !.invoked = run.invoked,
                                     !.adapter = run.frame.adapter]
    /\ UNCHANGED <<config_vars, pipeline_vars, adapter_vars, config_file, imported_config,
                   last_saved, last_read>>

ParseNext == RouterParse \/ RouterQuery

ParseSpec == ParseInit /\ [][ParseNext]_vars

\* The vocabulary of the routing claims, character by character.
HasCliMarker(id) ==
    Len(id) >= 4 /\ id[1] = "c" /\ id[2] = "l" /\ id[3] = "i" /\ id[4] = ":"

HasProxyMarker(id) ==
    Len(id) >= 11 /\ \A i \in 1..11 : id[i] = S_openrouter_prefix[i]

After(id, n) == [i \in 1..(Len(id) - n) |-> id[i + n]]
Before(id, k) == [i \in 1..(k - 1) |-> id[i]]
NoSlash(str) == \A i \in 1..Len(str) : str[i] # "/"

\* provider and name are the two sides of the first "/" of str
CutAtFirstSlash(str, provider, name) ==
    \E k \in 1..Len(str) :
        /\ str[k] = "/" /\ NoSlash(Before(str, k))
        /\ provider = Before(str, k)
        /\ name = After(str, k)

ProbeParsed == probe.step \in {"parsed", "queried"}
ProbeQueried == probe.step = "queried"

(***************************************************************************)
(* C16.  An identifier that starts with "cli:" takes the cli route, and    *)
(* the whole remainder after the marker, whatever it holds ("/", ":",      *)
(* nothing), is both the provider and the model name; query_model hands    *)
(* that remainder to the local-process adapter.                            *)
(***************************************************************************)
C16_CliMarkerTakesRemainder ==
    HasCliMarker(probe.model) =>
        /\ ProbeParsed =>
              probe.parsed = <<S_cli, After(probe.model, 4), After(probe.model, 4)>>
        /\ ProbeQueried =>
              /\ probe.invoked = <<[adapter |-> "cli", arg |-> After(probe.model, 4)]>>
              /\ probe.adapter = "cli"

C16_Witness ==
    /\ ProbeQueried
    /\ probe.model = S_cli_prefix \o <<"/", ":">>
    /\ probe.parsed[2] = <<"/", ":">>
    /\ probe.invoked[1].arg = <<"/", ":">>

\* The identifier has the form "provider/model" with a directly supported
\* provider before its first "/".
DirectForm(id) ==
    \E k \in 1..Len(id) :
        /\ id[k] = "/" /\ NoSlash(Before(id, k))
        /\ Before(id, k) \in {S_openai, S_anthropic}

\* The direct route: route kind and provider are the text before the first
\* "/", the model name is everything after it.
ParsedDirect ==
    \E k \in 1..Len(probe.model) :
        /\ probe.model[k] = "/" /\ NoSlash(Before(probe.model, k))
        /\ probe.parsed = <<Before(probe.model, k), Before(probe.model, k),
                            After(probe.model, k)>>

\* The proxy fallback: route kind openrouter, with the provider prefix that
\* was present, or "unknown" without a "/".
ParsedFallback ==
    /\ probe.parsed[1] = S_openrouter
    /\ IF NoSlash(probe.model)
       THEN probe.parsed[2] = S_unknown
       ELSE \E k \in 1..Len(probe.model) :
               /\ probe.model[k] = "/" /\ NoSlash(Before(probe.model, k))
               /\ probe.parsed[2] = Before(probe.model, k)

(***************************************************************************)
(* C17 as stated.  "provider/model" with openai or anthropic before the    *)
(* first "/" parses to that provider's route with everything after the     *)
(* first "/" as model name, and every other identifier parses to the       *)
(* proxy fallback with the prefix that was present, or "unknown".          *)
(***************************************************************************)
C17_EveryOtherFallsBack ==
    ProbeParsed =>
        IF DirectForm(probe.model) THEN ParsedDirect ELSE ParsedFallback

(***************************************************************************)
(* C17.  "provider/model" with openai or anthropic before the first "/"    *)
(* parses to that provider's route with everything after the first "/" as  *)
(* model name; every other identifier that starts with neither "cli:" nor  *)
(* "openrouter:" parses to the proxy fallback with the text before its     *)
(* first "/" as provider, or "unknown" when it has no "/".                 *)
(***************************************************************************)
C17_DirectOrFallback ==
    ProbeParsed =>
        IF DirectForm(probe.model) THEN ParsedDirect
        ELSE (~HasCliMarker(probe.model) /\ ~HasProxyMarker(probe.model)) => ParsedFallback

C17_Witness ==
    /\ ProbeParsed
    /\ probe.model = S_anthropic \o <<"/", "/">>
    /\ probe.parsed = <<S_anthropic, S_anthropic, <<"/">>>>

\* The remainder of an identifier that starts with "openrouter:".
ProxyRest == After(probe.model, 11)

(***************************************************************************)
(* C18.  An explicit "openrouter:" marker wins over direct support: the    *)
(* identifier takes the proxy route even when a directly supported         *)
(* provider follows the marker, and query_model never hands it to a direct *)
(* adapter.  The remainder after the marker is cut at its first "/" into   *)
(* provider and model name; without a "/" the provider is "unknown".  The  *)
(* "cli:" marker wins over both: "cli:" before "openrouter:" or before a   *)
(* direct provider still takes the cli route.                              *)
(***************************************************************************)
C18_ProxyMarkerWins ==
    /\ (HasProxyMarker(probe.model) /\ ProbeParsed) =>
          /\ probe.parsed[1] = S_openrouter
          /\ IF NoSlash(ProxyRest)
             THEN probe.parsed = <<S_openrouter, S_unknown, ProxyRest>>
             ELSE CutAtFirstSlash(ProxyRest, probe.parsed[2], probe.parsed[3])
    /\ (HasProxyMarker(probe.model) /\ ProbeQueried) =>
          /\ probe.adapter = "openrouter"
          /\ Len(probe.invoked) = 1
          /\ probe.invoked[1].adapter \notin {"openai", "anthropic", "cli"}
    /\ (HasCliMarker(probe.model) /\ ProbeParsed
            /\ (HasProxyMarker(After(probe.model, 4)) \/ DirectForm(After(probe.model, 4)))) =>
          probe.parsed[1] = S_cli
    /\ (HasCliMarker(probe.model) /\ ProbeQueried
            /\ (HasProxyMarker(After(probe.model, 4)) \/ DirectForm(After(probe.model, 4)))) =>
          probe.adapter = "cli"

C18_Witness ==
    /\ ProbeQueried
    /\ probe.model = S_openrouter_prefix \o S_openai \o <<"/", "m">>
    /\ probe.parsed = <<S_openrouter, S_openai, <<"m">>>>
    /\ probe.invoked = <<[adapter |-> "openrouter", arg |-> S_openai \o <<"/", "m">>]>>

\* The adapter of a route kind.
AdapterOf(route_to) ==
    IF route_to = S_cli THEN "cli"
    ELSE IF route_to = S_openai THEN "openai"
    ELSE IF route_to = S_anthropic THEN "anthropic"
    ELSE "openrouter"

\* The identifiers the awaited fan-out was given.
FanoutModels == IF pc = "await_stage3" THEN <<chairman_model>> ELSE council_models

(***************************************************************************)
(* C19.  The router retries nothing: one query of one identifier is one    *)
(* invocation of one adapter, the one its parsed route selects, whether    *)
(* the answer is a response, a failure or a timeout; and a fan-out makes   *)
(* one such query per identifier of its list.                              *)
(***************************************************************************)
C19_OneInvocationPerQuery ==
    /\ \A i \in DOMAIN calls :
          IF calls[i].done
          THEN /\ Len(calls[i].invoked) = 1
               /\ calls[i].invoked[1].adapter = AdapterOf(Route(calls[i]))
               /\ calls[i].frame.adapter = calls[i].invoked[1].adapter
          ELSE calls[i].invoked = <<>>
    /\ pc \in {"await_stage1", "await_stage2", "await_stage3"} =>
          /\ Len(calls) = Len(FanoutModels)
          /\ \A i \in DOMAIN calls : calls[i].model = FanoutModels[i]

C19_Witness ==
    /\ pc = "await_stage1"
    /\ \E i \in DOMAIN calls :
          /\ calls[i].done /\ calls[i].frame.value = NoneValue
          /\ calls[i].world # HealthyWorld
          /\ calls[i].invoked = <<[adapter |-> "openai", arg |-> <<"m">>]>>
    /\ \E j \in DOMAIN calls :
          /\ calls[j].done /\ calls[j].frame.value = TimedOutValue
          /\ Len(calls[j].invoked) = 1

(***************************************************************************)
(* The configuration endpoints and the readers of the configuration        *)
(* (backend/main.py, backend/config.py).  No handler awaits between its    *)
(* reads or around its write, so each is one step.                         *)
(***************************************************************************)
ConfigLists == {<<>>} \cup SeqsUpTo(CouncilIds, MaxCouncil)
ConfigChairmen == {M_anthropic, M_cli_gemini}

ConfigInit ==
    /\ default_models = DEFAULT_COUNCIL_MODELS
    /\ keys = {"anthropic"}
    /\ config_file \in {NoFile, InvalidFile}
                        \cup {save_council_config(<<m>>, M_cli_gemini) : m \in CouncilIds}
    /\ imported_config = load_council_config(config_file).value
    /\ council_models = imported_config[1]
    /\ chairman_model = imported_config[2]
    /\ messages = <<>>
    /\ title = "New Conversation"
    /\ is_first_message = FALSE
    /\ pc = "idle"
    /\ events = <<>>
    /\ calls = <<>>
    /\ stage1_results = <<>>
    /\ stage2_results = <<>>
    /\ stage3_result = NoResult
    /\ title_task = "none"
    /\ fault = "none"
    /\ probe = NoProbe
    /\ last_saved = NoConfig
    /\ last_read = NoRead
    /\ cli_prompt = NoPrompt
    /\ anthropic_call = NoAnthropicCall
    /\ requests = NoRequests
    /\ loaded = NoLoad
    /\ health = NoHealth

\* The adapter state the configuration endpoints leave alone.
config_adapters == <<cli_prompt, anthropic_call, requests, default_models, loaded>>

(***************************************************************************)
(* backend/main.py: _get_model_info.  api_keys is the set of providers     *)
(* with a credential, cli_tools the set of commands found on the search    *)
(* path.                                                                   *)
(***************************************************************************)
ModelInfo(model, type, ready) == [identifier |-> model, type |-> type, ready |-> ready]

\* cli_tools.get(cli_name, {}).get("available", False)
CliAvailable(cli_name, cli_tools) ==
    cli_name \in DOMAIN CLI_COMMANDS /\ CLI_COMMANDS[cli_name].command \in cli_tools

\* Mutant of _get_model_info: the direct providers are told by their name
\* alone, without the "/" after it.
_get_model_info_NameOnly(model, api_keys, cli_tools) ==
    IF StartsWith(model, S_cli_prefix)
    THEN ModelInfo(model, S_cli, CliAvailable(SliceFrom(model, 4), cli_tools))
    ELSE IF StartsWith(model, S_openrouter_prefix)
    THEN ModelInfo(model, S_openrouter, "openrouter" \in api_keys)
    ELSE IF StartsWith(model, S_openai)
    THEN ModelInfo(model, S_openai, "openai" \in api_keys)
    ELSE IF StartsWith(model, S_anthropic)
    THEN ModelInfo(model, S_anthropic, "anthropic" \in api_keys)
    ELSE ModelInfo(model, S_openrouter, "openrouter" \in api_keys)

_get_model_info(model, api_keys, cli_tools) ==
    IF StartsWith(model, S_cli_prefix)
    THEN ModelInfo(model, S_cli, CliAvailable(SliceFrom(model, 4), cli_tools))
    ELSE IF StartsWith(model, S_openrouter_prefix)
    THEN ModelInfo(model, S_openrouter, "openrouter" \in api_keys)
    ELSE IF StartsWith(model, S_openai \o <<"/">>)
    THEN ModelInfo(model, S_openai, "openai" \in api_keys)
    ELSE IF StartsWith(model, S_anthropic \o <<"/">>)
    THEN ModelInfo(model, S_anthropic, "anthropic" \in api_keys)
    ELSE ModelInfo(model, S_openrouter, "openrouter" \in api_keys)

\* POST /api/config: the request is saved and echoed.
UpdateConfig ==
    /\ \E models \in ConfigLists, chairman \in ConfigChairmen :
          /\ config_file' = save_council_config(models, chairman)
          /\ last_saved' = [set |-> TRUE, council_models |-> models,
                                          chairman_model |-> chairman]
    /\ last_read' = NoRead
    /\ health' = NoHealth
    /\ UNCHANGED <<config_vars, pipeline_vars, config_adapters, probe, imported_config>>

\* POST /api/config when the write raises: open() has truncated the file,
\* or could not open it.  The handler does not return; an update that left
\* the file truncated ends the time of the one before it.
UpdateConfigRaises ==
    /\ \/ /\ config_file' = InvalidFile
          /\ last_saved' = NoConfig
       \/ UNCHANGED <<config_file, last_saved>>
    /\ last_read' = NoRead
    /\ health' = NoHealth
    /\ UNCHANGED <<config_vars, pipeline_vars, config_adapters, probe, imported_config>>

Read(by, models, chairman) ==
    [by |-> by, council_models |-> models, chairman_model |-> chairman]

\* get_council_models() called on its own
ReadCouncilModels ==
    /\ last_read' = Read("get_council_models", get_council_models(config_file), <<>>)
    /\ health' = NoHealth
    /\ UNCHANGED <<config_vars, pipeline_vars, config_adapters, probe, config_file, imported_config,
                   last_saved>>

\* get_chairman_model() called on its own
ReadChairmanModel ==
    /\ last_read' = Read("get_chairman_model", <<>>, get_chairman_model(config_file))
    /\ health' = NoHealth
    /\ UNCHANGED <<config_vars, pipeline_vars, config_adapters, probe, config_file, imported_config,
                   last_saved>>

\* GET /api/config
GetConfig ==
    /\ last_read' = Read("get_config", get_council_models(config_file),
                                       get_chairman_model(config_file))
    /\ health' = NoHealth
    /\ UNCHANGED <<config_vars, pipeline_vars, config_adapters, probe, config_file, imported_config,
                   last_saved>>

\* GET /api/health: the credentials and the tools found on the search
\* path, one model_info per council model, in order, and one for the
\* chairman, and the overall status.
HealthCheck ==
    /\ \E cli_tools \in SUBSET {CLI_COMMANDS[n].command : n \in DOMAIN CLI_COMMANDS} :
       LET api_keys == keys
           models == get_council_models(config_file)
           chairman == get_chairman_model(config_file)
           infos == [i \in 1..Len(models) |-> _get_model_info(models[i], api_keys, cli_tools)]
           chairman_info == _get_model_info(chairman, api_keys, cli_tools)
           all_models_ready == (\A i \in 1..Len(infos) : infos[i].ready) /\ chairman_info.ready
       IN  /\ health' = [status |-> IF all_models_ready THEN "healthy" ELSE "degraded",
                         all_ready |-> all_models_ready,
                         council_models |-> infos,
                         chairman_model |-> chairman_info,
                         api_keys |-> api_keys,
                         cli_tools |-> cli_tools]
           /\ last_read' = Read("health_check",
                                [i \in 1..Len(infos) |-> infos[i].identifier],
                                chairman_info.identifier)
    /\ UNCHANGED <<config_vars, pipeline_vars, config_adapters, probe, config_file,
                   imported_config, last_saved>>

\* A pipeline run takes its snapshot of the configuration as it starts.
RunReadsConfig ==
    /\ pc = "idle"
    /\ council_models' = get_council_models(config_file)
    /\ chairman_model' = get_chairman_model(config_file)
    /\ last_read' = Read("run", council_models', chairman_model')
    /\ health' = NoHealth
    /\ UNCHANGED <<keys, pipeline_vars, config_adapters, probe, config_file, imported_config, last_saved>>

ConfigNext ==
    \/ UpdateConfig
    \/ UpdateConfigRaises
    \/ ReadCouncilModels
    \/ ReadChairmanModel
    \/ GetConfig
    \/ HealthCheck
    \/ RunReadsConfig

ConfigSpec == ConfigInit /\ [][ConfigNext]_vars

ReadsModels == last_read.by \in {"get_council_models", "get_config", "health_check", "run"}
ReadsChairman == last_read.by \in {"get_chairman_model", "get_config", "health_check", "run"}

(***************************************************************************)
(* C20.  The configuration is never served from a cache: once              *)
(* update_config has returned, every read made before the next update      *)
(* (get_council_models, get_chairman_model, get_config, health_check, the  *)
(* snapshot of a pipeline run) gives exactly the saved list of council     *)
(* models, in the saved order, and the saved chairman; none gives what was *)
(* loaded earlier.                                                         *)
(***************************************************************************)
C20_ReadsGiveLastSaved ==
    last_saved.set =>
        /\ ReadsModels => last_read.council_models = last_saved.council_models
        /\ ReadsChairman => last_read.chairman_model = last_saved.chairman_model
        /\ last_read.by = "run" =>
              /\ council_models = last_saved.council_models
              /\ chairman_model = last_saved.chairman_model

C20_Witness ==
    /\ last_saved.set
    /\ last_saved.council_models = <<M_openai, M_cli_codex>>
    /\ last_saved.chairman_model = M_cli_gemini
    /\ imported_config = <<DEFAULT_COUNCIL_MODELS, DEFAULT_CHAIRMAN_MODEL>>
    /\ last_read = Read("run", <<M_openai, M_cli_codex>>, M_cli_gemini)
    /\ council_models = <<M_openai, M_cli_codex>>

\* Where send_message can be, and where it is once the title call is behind
\* it or was skipped.
SendPcs == {"s_start", "s_await_title", "s_update_title", "s_call_council",
            "s_await_council", "s_add_assistant", "s_returned", "s_raised"}
InSend == pc \in SendPcs
InStream == pc \notin SendPcs \cup {"idle"}
Emitted(type) == \E i \in DOMAIN events : events[i] = type

\* The handler is suspended on the title call.
AwaitingTitle ==
    \/ pc = "s_await_title"
    \/ pc = "y_stage3_complete" /\ title_task # "none"

\* Title generation iff the conversation was empty, in the streaming
\* driver: the task exists from stage1_start on exactly for a first message,
\* title_complete directly follows stage3_complete, and a completed run has
\* it exactly for a first message.
StreamTitleRule ==
    /\ (InStream /\ Emitted("stage1_start")) => (title_task # "none" <=> is_first_message)
    /\ (InStream /\ ~Emitted("stage1_start")) => title_task = "none"
    /\ \A i \in DOMAIN events :
          events[i] = "title_complete" =>
              /\ i > 1 /\ events[i - 1] = "stage3_complete"
              /\ \A j \in 1..i : events[j] # "complete"
    /\ Emitted("complete") => (Emitted("title_complete") <=> is_first_message)
    /\ Emitted("title_complete") => title = "generated"

\* Title generation iff the conversation was empty, in send_message.
SendTitleRule ==
    /\ pc \in {"s_await_title", "s_update_title"} => is_first_message
    /\ pc \in {"s_call_council", "s_await_council", "s_add_assistant", "s_returned"} =>
          (title = "generated" <=> is_first_message)
    /\ (InSend /\ ~is_first_message) => title = TitleBefore

(***************************************************************************)
(* C21 as stated.  A title is generated exactly for a first message, and   *)
(* title generation never delays the stages: no handler waits for the      *)
(* title before Stage 3 has returned.                                      *)
(***************************************************************************)
C21_TitleNeverDelaysStages ==
    /\ StreamTitleRule
    /\ SendTitleRule
    /\ AwaitingTitle => Stage3Returned

(***************************************************************************)
(* C21.  A title is generated exactly when the conversation had no stored  *)
(* message as the request arrived.  In the streaming driver the title call *)
(* is started before Stage 1 and awaited only after stage3_complete, so    *)
(* title_complete comes directly after stage3_complete and before          *)
(* complete, and a completed run has it exactly for a first message.  In   *)
(* send_message the title is awaited and stored before the stages are      *)
(* started.                                                                *)
(***************************************************************************)
C21_TitleByFirstMessage ==
    /\ StreamTitleRule
    /\ SendTitleRule
    /\ (InStream /\ AwaitingTitle) => Stage3Returned
    /\ pc = "s_await_title" => ~Stage3Returned

C21_Witness ==
    /\ pc = "y_title_complete"
    /\ is_first_message
    /\ title_task = "done"
    /\ events = StageOrder \o <<"title_complete">>

(***************************************************************************)
(* State in which no handler runs and nothing has been asked: the part of  *)
(* the initial state shared by the specifications of single functions.     *)
(***************************************************************************)
IdlePipeline ==
    /\ keys \in KeySets
    /\ council_models = <<M_cli_codex>>
    /\ chairman_model = M_anthropic
    /\ messages = <<>>
    /\ title = "New Conversation"
    /\ is_first_message = FALSE
    /\ pc = "idle"
    /\ events = <<>>
    /\ calls = <<>>
    /\ stage1_results = <<>>
    /\ stage2_results = <<>>
    /\ stage3_result = NoResult
    /\ title_task = "none"
    /\ fault = "none"
    /\ probe = NoProbe
    /\ health = NoHealth

IdleConfig ==
    /\ config_file = save_council_config(council_models, chairman_model)
    /\ imported_config = <<council_models, chairman_model>>
    /\ last_saved = NoConfig
    /\ last_read \in {NoRead}
    /\ default_models = DEFAULT_COUNCIL_MODELS

(***************************************************************************)
(* backend/providers/cli_provider.py: the messages made into one prompt.   *)
(* A message is {role, content} with role system, user or assistant.       *)
(***************************************************************************)
MaxMessages == 2

S_SystemPrefix == <<"S", "y", "s", "t", "e", "m", ":", " ">>
S_AssistantPrefix == <<"A", "s", "s", "i", "s", "t", "a", "n", "t", ":", " ">>
S_BlankLine == <<"\n", "\n">>

Roles == {"system", "user", "assistant"}
Contents == {<<>>, <<"a">>, <<"\n", "\n">>}
Messages == [role : Roles, content : Contents]
MessageSeqs == {<<>>} \cup SeqsUpTo(Messages, MaxMessages)

\* Mutant of PromptParts: system messages are left out of the prompt.
RECURSIVE PromptParts_NoSystem(_)
PromptParts_NoSystem(msgs) ==
    IF msgs = <<>> THEN <<>>
    ELSE LET msg == Head(msgs)
             rest == PromptParts_NoSystem(Tail(msgs))
         IN  IF msg.role = "user" THEN <<msg.content>> \o rest
             ELSE IF msg.role = "assistant" THEN <<S_AssistantPrefix \o msg.content>> \o rest
             ELSE rest

\* for msg in messages: append the rendered message for a role the loop
\* knows, nothing for any other role
RECURSIVE PromptParts(_)
PromptParts(msgs) ==
    IF msgs = <<>> THEN <<>>
    ELSE LET msg == Head(msgs)
             rest == PromptParts(Tail(msgs))
         IN  IF msg.role = "system" THEN <<S_SystemPrefix \o msg.content>> \o rest
             ELSE IF msg.role = "user" THEN <<msg.content>> \o rest
             ELSE IF msg.role = "assistant" THEN <<S_AssistantPrefix \o msg.content>> \o rest
             ELSE rest

\* "\n\n".join(prompt_parts)
RECURSIVE JoinBlankLine(_)
JoinBlankLine(parts) ==
    IF parts = <<>> THEN <<>>
    ELSE IF Len(parts) = 1 THEN parts[1]
    ELSE parts[1] \o S_BlankLine \o JoinBlankLine(Tail(parts))

\* What building the prompt leaves alone.
flatten_rest == <<config_vars, pipeline_vars, probe, config_file, imported_config,
                  last_saved, last_read, anthropic_call, requests,
                    default_models, loaded, health>>

FlattenInit ==
    /\ IdlePipeline
    /\ IdleConfig
    /\ cli_prompt \in {[NoPrompt EXCEPT !.messages = msgs, !.step = "called"] :
                           msgs \in MessageSeqs}
    /\ anthropic_call = NoAnthropicCall
    /\ requests = NoRequests
    /\ loaded = NoLoad

\* query_cli up to the prompt: an unknown tool and a command that is not
\* found return before the messages are looked at.
CliBuildPrompt ==
    /\ cli_prompt.step = "called"
    /\ \E cli_name \in DOMAIN CLI_COMMANDS \cup {<<"x">>} :
       \E w \in {HealthyWorld, [HealthyWorld EXCEPT !.which = FALSE]} :
          IF CliUnknown(cli_name)
          THEN cli_prompt' = [cli_prompt EXCEPT !.step = "unknown"]
          ELSE IF CliNotFound(CLI_COMMANDS[cli_name], w)
          THEN cli_prompt' = [cli_prompt EXCEPT !.step = "not_found"]
          ELSE LET prompt_parts == PromptParts(cli_prompt.messages)
               IN  cli_prompt' = [cli_prompt EXCEPT !.step = "built",
                                                    !.prompt_parts = prompt_parts,
                                                    !.prompt = JoinBlankLine(prompt_parts)]
    /\ UNCHANGED flatten_rest

FlattenNext == CliBuildPrompt

FlattenSpec == FlattenInit /\ [][FlattenNext]_vars

\* What the claim says a message is rendered as.
Rendered(msg) ==
    CASE msg.role = "system" -> <<"S", "y", "s", "t", "e", "m", ":", " ">> \o msg.content
      [] msg.role = "user" -> msg.content
      [] msg.role = "assistant" ->
            <<"A", "s", "s", "i", "s", "t", "a", "n", "t", ":", " ">> \o msg.content

\* Where part i starts in a text of parts separated by two characters.
RECURSIVE PartOffset(_, _)
PartOffset(parts, i) ==
    IF i = 1 THEN 0 ELSE PartOffset(parts, i - 1) + Len(parts[i - 1]) + 2

\* text is the parts, in order, with one blank line between neighbours.
JoinedByBlankLines(text, parts) ==
    LET n == Len(parts)
    IN  /\ Len(text) = IF n = 0 THEN 0 ELSE PartOffset(parts, n) + Len(parts[n])
        /\ \A i \in 1..n :
              /\ \A k \in 1..Len(parts[i]) : text[PartOffset(parts, i) + k] = parts[i][k]
              /\ i < n =>
                    /\ text[PartOffset(parts, i) + Len(parts[i]) + 1] = "\n"
                    /\ text[PartOffset(parts, i) + Len(parts[i]) + 2] = "\n"

(***************************************************************************)
(* C22.  The local-process adapter makes one prompt of the messages and    *)
(* keeps every message in its place: there are as many rendered parts as   *)
(* messages, part i is message i rendered by its role ("System: " before a *)
(* system message, "Assistant: " before an assistant message, a user       *)
(* message as it is), and the prompt is the parts joined by one blank      *)
(* line.                                                                   *)
(***************************************************************************)
C22_PromptKeepsEveryMessage ==
    cli_prompt.step = "built" =>
        /\ Len(cli_prompt.prompt_parts) = Len(cli_prompt.messages)
        /\ \A i \in 1..Len(cli_prompt.messages) :
              cli_prompt.prompt_parts[i] = Rendered(cli_prompt.messages[i])
        /\ JoinedByBlankLines(cli_prompt.prompt, cli_prompt.prompt_parts)

C22_Witness ==
    /\ cli_prompt.step = "built"
    /\ cli_prompt.messages = <<[role |-> "system", content |-> <<"a">>],
                               [role |-> "assistant", content |-> <<>>]>>
    /\ cli_prompt.prompt = S_SystemPrefix \o <<"a", "\n", "\n">> \o S_AssistantPrefix

(***************************************************************************)
(* backend/providers/anthropic_provider.py: the messages made into the     *)
(* payload, and the response made into the result.                         *)
(***************************************************************************)
\* Python's None and a str, for system_content and reasoning_details.
PyNone == [py |-> "None", value |-> <<>>]
PyStr(str) == [py |-> "str", value |-> str]

\* if x: for None or a str
Truthy(x) == x.py = "str" /\ x.value # <<>>

\* for msg in messages: a system message sets system_content, any other
\* message is appended to anthropic_messages
RECURSIVE AnthropicConvert(_, _)
AnthropicConvert(msgs, acc) ==
    IF msgs = <<>> THEN acc
    ELSE LET msg == Head(msgs)
         IN  IF msg.role = "system"
             THEN AnthropicConvert(Tail(msgs), [acc EXCEPT !.system_content = PyStr(msg.content)])
             ELSE AnthropicConvert(Tail(msgs),
                      [acc EXCEPT !.anthropic_messages =
                           Append(@, [role |-> msg.role, content |-> msg.content])])

\* The content blocks of a response: text, thinking, and a block of
\* another type.
Blocks == {[type |-> "text", body |-> <<"x">>], [type |-> "text", body |-> <<"y">>],
           [type |-> "thinking", body |-> <<"x">>], [type |-> "thinking", body |-> <<"y">>],
           [type |-> "tool_use", body |-> <<"x">>]}
BlockSeqs == {<<>>} \cup SeqsUpTo(Blocks, MaxMessages)

\* for block in content_blocks: text is added to text_content, thinking
\* replaces reasoning_details
RECURSIVE AnthropicExtract(_, _)
AnthropicExtract(blocks, acc) ==
    IF blocks = <<>> THEN acc
    ELSE LET block == Head(blocks)
         IN  IF block.type = "text"
             THEN AnthropicExtract(Tail(blocks),
                      [acc EXCEPT !.text_content = @ \o block.body])
             ELSE IF block.type = "thinking"
             THEN AnthropicExtract(Tail(blocks),
                      [acc EXCEPT !.reasoning_details = PyStr(block.body)])
             ELSE AnthropicExtract(Tail(blocks), acc)

\* What the Anthropic adapter leaves alone.
anthropic_rest == <<config_vars, pipeline_vars, probe, config_file, imported_config,
                    last_saved, last_read, cli_prompt, requests,
                    default_models, loaded, health>>

AnthropicInit ==
    /\ IdlePipeline
    /\ IdleConfig
    /\ cli_prompt = NoPrompt
    /\ anthropic_call \in {[NoAnthropicCall EXCEPT !.messages = msgs, !.step = "called"] :
                               msgs \in MessageSeqs}
    /\ requests = NoRequests
    /\ loaded = NoLoad

\* query_anthropic up to the post: the payload is built from the messages.
AnthropicBuildPayload ==
    /\ anthropic_call.step = "called"
    /\ IF HttpNoKey("anthropic", keys)
       THEN anthropic_call' = [anthropic_call EXCEPT !.step = "failed"]
       ELSE LET converted == AnthropicConvert(anthropic_call.messages,
                                 [system_content |-> PyNone, anthropic_messages |-> <<>>])
            IN  anthropic_call' =
                    [anthropic_call EXCEPT
                        !.step = "posted",
                        !.api_messages = converted.anthropic_messages,
                        !.has_system = Truthy(converted.system_content),
                        !.system = IF Truthy(converted.system_content)
                                   THEN converted.system_content.value ELSE <<>>]
    /\ UNCHANGED anthropic_rest

\* The post returns and the result is made of the content blocks; a failed
\* exchange ends in one of the except clauses.
AnthropicReadResponse ==
    /\ anthropic_call.step = "posted"
    /\ \E w \in HttpWorlds :
          IF w.http # "ok"
          THEN anthropic_call' = [anthropic_call EXCEPT !.step = "failed"]
          ELSE \E blocks \in BlockSeqs :
               LET extracted == AnthropicExtract(blocks,
                                    [text_content |-> <<>>, reasoning_details |-> PyNone])
               IN  anthropic_call' =
                       [anthropic_call EXCEPT
                           !.step = "returned",
                           !.blocks = blocks,
                           !.content = extracted.text_content,
                           !.has_reasoning = extracted.reasoning_details.py = "str",
                           !.reasoning = extracted.reasoning_details.value]
    /\ UNCHANGED anthropic_rest

AnthropicNext == AnthropicBuildPayload \/ AnthropicReadResponse

AnthropicSpec == AnthropicInit /\ [][AnthropicNext]_vars

\* The messages begin with a system message.
LeadingSystem(msgs) == Len(msgs) > 0 /\ msgs[1].role = "system"

\* The texts of the text-typed blocks, in block order, as one text.
RECURSIVE TextOf(_)
TextOf(blocks) ==
    IF blocks = <<>> THEN <<>>
    ELSE (IF blocks[1].type = "text" THEN blocks[1].body ELSE <<>>) \o TextOf(Tail(blocks))

(***************************************************************************)
(* C23.  The Anthropic adapter loses no message and keeps their order:     *)
(* only a leading system message goes to the top-level system field and    *)
(* every other message is sent, in its place, in the messages list; the    *)
(* content returned is the text-typed blocks of the response joined in     *)
(* block order, and a thinking-typed block is returned as the reasoning.   *)
(***************************************************************************)
C23_NoMessageLost ==
    /\ anthropic_call.step \in {"posted", "returned"} =>
          IF LeadingSystem(anthropic_call.messages)
          THEN /\ anthropic_call.has_system
               /\ anthropic_call.system = anthropic_call.messages[1].content
               /\ anthropic_call.api_messages = Tail(anthropic_call.messages)
          ELSE /\ ~anthropic_call.has_system
               /\ anthropic_call.api_messages = anthropic_call.messages
    /\ anthropic_call.step = "returned" =>
          /\ anthropic_call.content = TextOf(anthropic_call.blocks)
          /\ anthropic_call.has_reasoning <=>
                 \E i \in DOMAIN anthropic_call.blocks :
                     anthropic_call.blocks[i].type = "thinking"
          /\ anthropic_call.has_reasoning =>
                 \E i \in DOMAIN anthropic_call.blocks :
                     /\ anthropic_call.blocks[i].type = "thinking"
                     /\ anthropic_call.reasoning = anthropic_call.blocks[i].body

(***************************************************************************)
(* backend/main.py: several message requests on one conversation, handled  *)
(* by one event loop.  A handler runs alone from one await to the next;    *)
(* between the return of send_message_stream and the first step of its     *)
(* generator the framework is in control and other handlers can run.       *)
(* Storage faults are left out here.                                       *)
(***************************************************************************)
MaxRequests == 2

Handlers == {"send_message", "send_message_stream"}
NewRequest(handler) == [handler |-> handler, at |-> "new", is_first_message |-> FALSE,
                        title_started |-> FALSE, title_stored |-> FALSE]

\* What the handlers of concurrent requests leave alone.
race_rest == <<config_vars, is_first_message, pc, events, calls, stage1_results,
               stage2_results, stage3_result, title_task, fault, probe, config_file,
               imported_config, last_saved, last_read, cli_prompt, anthropic_call,
               default_models, loaded, health>>

RaceInit ==
    /\ IdlePipeline
    /\ IdleConfig
    /\ cli_prompt = NoPrompt
    /\ anthropic_call = NoAnthropicCall
    /\ requests \in [1..MaxRequests -> {NewRequest(h) : h \in Handlers}]
    /\ loaded = NoLoad

\* send_message from its entry to its first await: the conversation is
\* read, the user message stored, and for a first message the title call
\* is made.
SendEnter(r) ==
    /\ requests[r].handler = "send_message" /\ requests[r].at = "new"
    /\ LET first == Len(messages) = 0
       IN  requests' = [requests EXCEPT ![r].is_first_message = first,
                                        ![r].title_started = first,
                                        ![r].at = IF first THEN "await_title"
                                                  ELSE "await_council"]
    /\ messages' = Append(messages, "user")
    /\ UNCHANGED <<title, race_rest>>

\* The title call returns; the title is stored and run_full_council called.
SendStoreTitle(r) ==
    /\ requests[r].handler = "send_message" /\ requests[r].at = "await_title"
    /\ title' = "generated"
    /\ requests' = [requests EXCEPT ![r].title_stored = TRUE, ![r].at = "await_council"]
    /\ UNCHANGED <<messages, race_rest>>

\* run_full_council returns; the assistant message is stored.
SendFinish(r) ==
    /\ requests[r].handler = "send_message" /\ requests[r].at = "await_council"
    /\ messages' = Append(messages, "assistant")
    /\ requests' = [requests EXCEPT ![r].at = "returned"]
    /\ UNCHANGED <<title, race_rest>>

\* send_message_stream: the conversation is read, is_first_message
\* computed, and the streaming response returned to the framework.
StreamEnter(r) ==
    /\ requests[r].handler = "send_message_stream" /\ requests[r].at = "new"
    /\ requests' = [requests EXCEPT ![r].is_first_message = (Len(messages) = 0),
                                     ![r].at = "response_returned"]
    /\ UNCHANGED <<messages, title, race_rest>>

\* The generator's first step: the user message is stored, the title task
\* created for a first message, stage1_start yielded, Stage 1 awaited.
StreamGeneratorStart(r) ==
    /\ requests[r].handler = "send_message_stream"
    /\ requests[r].at = "response_returned"
    /\ messages' = Append(messages, "user")
    /\ requests' = [requests EXCEPT ![r].title_started = requests[r].is_first_message,
                                     ![r].at = "await_stages"]
    /\ UNCHANGED <<title, race_rest>>

\* The stages have returned; the title task, if any, is awaited.
StreamStagesReturn(r) ==
    /\ requests[r].handler = "send_message_stream" /\ requests[r].at = "await_stages"
    /\ requests' = [requests EXCEPT ![r].at = IF requests[r].title_started
                                              THEN "await_title" ELSE "save"]
    /\ UNCHANGED <<messages, title, race_rest>>

\* The title task returns; the title is stored and title_complete yielded.
StreamStoreTitle(r) ==
    /\ requests[r].handler = "send_message_stream" /\ requests[r].at = "await_title"
    /\ title' = "generated"
    /\ requests' = [requests EXCEPT ![r].title_stored = TRUE, ![r].at = "save"]
    /\ UNCHANGED <<messages, race_rest>>

\* The assistant message is stored and complete yielded.
StreamFinish(r) ==
    /\ requests[r].handler = "send_message_stream" /\ requests[r].at = "save"
    /\ messages' = Append(messages, "assistant")
    /\ requests' = [requests EXCEPT ![r].at = "returned"]
    /\ UNCHANGED <<title, race_rest>>

RaceNext ==
    \E r \in 1..MaxRequests :
        \/ SendEnter(r)
        \/ SendStoreTitle(r)
        \/ SendFinish(r)
        \/ StreamEnter(r)
        \/ StreamGeneratorStart(r)
        \/ StreamStagesReturn(r)
        \/ StreamStoreTitle(r)
        \/ StreamFinish(r)

RaceSpec == RaceInit /\ [][RaceNext]_vars

\* The requests that took their message for the first, started a title
\* call, stored a title.
TookFirst == {r \in DOMAIN requests : requests[r].is_first_message}
StartedTitle == {r \in DOMAIN requests : requests[r].title_started}
StoredTitle == {r \in DOMAIN requests : requests[r].title_stored}

(***************************************************************************)
(* C24.  Of the message requests sent to one conversation while it is      *)
(* empty, however their handlers interleave, at most one takes its message *)
(* for the first message, at most one starts title generation and at most  *)
(* one stores a title.                                                     *)
(***************************************************************************)
C24_AtMostOneTitle ==
    /\ Cardinality(TookFirst) <= 1
    /\ Cardinality(StartedTitle) <= 1
    /\ Cardinality(StoredTitle) <= 1

(***************************************************************************)
(* backend/config.py: load_council_config on every kind of file, and a     *)
(* caller that changes the list it was given.                              *)
(***************************************************************************)
MaxMutations == 2

LoadFiles ==
    {NoFile, UnreadableFile, InvalidFile,
     JsonArray(<<>>), JsonString(M_openai),
     JsonObject(<<>>),
     JsonObject(<<<<"council_models", JsonDumpList(<<M_openai>>)>>>>),
     JsonObject(<<<<"chairman_model", JsonString(M_cli_gemini)>>>>),
     save_council_config(<<M_openai>>, M_cli_gemini)}

\* What loading the configuration leaves alone.
load_rest == <<config_vars, pipeline_vars, probe, config_file, imported_config,
               last_saved, last_read, cli_prompt, anthropic_call, requests, health>>

LoadInit ==
    /\ IdlePipeline
    /\ config_file \in LoadFiles
    /\ imported_config = <<DEFAULT_COUNCIL_MODELS, DEFAULT_CHAIRMAN_MODEL>>
    /\ last_saved = NoConfig
    /\ last_read \in {NoRead}
    /\ cli_prompt = NoPrompt
    /\ anthropic_call = NoAnthropicCall
    /\ requests = NoRequests
    /\ default_models = DEFAULT_COUNCIL_MODELS
    /\ loaded = NoLoad

\* models, chairman = load_council_config()
LoadConfig ==
    /\ LET f == load_council_config(config_file)
           returned == IF f.exit = "return" THEN f.value ELSE <<<<>>, <<>>>>
       IN  loaded' = [loaded EXCEPT !.step = "loaded",
                                    !.exit = f.exit,
                                    !.returned = returned,
                                    !.models = returned[1],
                                    !.shares_default = f.shares_default]
    /\ UNCHANGED <<default_models, load_rest>>

\* The caller appends to the list it was given: models.append(...).  A
\* list that is the DEFAULT_COUNCIL_MODELS object changes with it.
CallerMutates ==
    /\ loaded.step = "loaded" /\ loaded.exit = "return"
    /\ loaded.mutations < MaxMutations
    /\ \E m \in CouncilIds :
          /\ loaded' = [loaded EXCEPT !.models = Append(@, m), !.mutations = @ + 1]
          /\ default_models' = IF loaded.shares_default
                               THEN Append(default_models, m) ELSE default_models
    /\ UNCHANGED load_rest

LoadNext == LoadConfig \/ CallerMutates

LoadSpec == LoadInit /\ [][LoadNext]_vars

\* The file is a JSON object and has the key.
FileHasKey(key) ==
    config_file.json = "object" /\ \E i \in DOMAIN config_file.pairs : config_file.pairs[i][1] = key

\* The defaults as config.py writes them.
DefaultList == <<S_cli_prefix \o S_codex, S_cli_prefix \o S_gemini>>
DefaultChairman == S_anthropic \o <<"/", "m">>

(***************************************************************************)
(* C25.  load_council_config never raises and always returns a pair: the   *)
(* defaults when the file is missing, unreadable, not JSON, or JSON that   *)
(* is not an object; for an object that lacks a key, the default for that  *)
(* key and the file's value for the other; and the default list is given   *)
(* out as a copy, so that no caller's change to the list it got changes    *)
(* the defaults of later loads.                                            *)
(***************************************************************************)
C25_LoadNeverRaises ==
    /\ loaded.step = "loaded" =>
          /\ loaded.exit = "return"
          /\ ~FileHasKey("council_models") => loaded.returned[1] = DefaultList
          /\ ~FileHasKey("chairman_model") => loaded.returned[2] = DefaultChairman
          /\ FileHasKey("council_models") => loaded.returned[1] = <<M_openai>>
          /\ FileHasKey("chairman_model") => loaded.returned[2] = M_cli_gemini
    /\ default_models = DefaultList

(***************************************************************************)
(* backend/main.py: health_check on configurations that hold identifiers   *)
(* of every shape.                                                         *)
(***************************************************************************)
HealthConfigs ==
    {save_council_config(<<id>>, M_anthropic) : id \in Identifiers}
    \cup {save_council_config(<<M_cli_codex>>, id) : id \in Identifiers}
    \cup {save_council_config(list, M_cli_gemini) : list \in ConfigLists}

HealthInit ==
    /\ IdlePipeline
    /\ config_file \in HealthConfigs
    /\ imported_config = <<DEFAULT_COUNCIL_MODELS, DEFAULT_CHAIRMAN_MODEL>>
    /\ last_saved = NoConfig
    /\ last_read \in {NoRead}
    /\ cli_prompt = NoPrompt
    /\ anthropic_call = NoAnthropicCall
    /\ requests = NoRequests
    /\ default_models = DEFAULT_COUNCIL_MODELS
    /\ loaded = NoLoad

HealthNext == HealthCheck

HealthSpec == HealthInit /\ [][HealthNext]_vars

\* The model_infos of a health response: the council's and the chairman's.
HealthInfos ==
    {health.council_models[i] : i \in DOMAIN health.council_models}
        \cup {health.chairman_model}

\* The configuration the file holds.
ConfiguredModels == [i \in 1..Len(config_file.pairs[1][2].items) |->
                        config_file.pairs[1][2].items[i].value]
ConfiguredChairman == config_file.pairs[2][2].value

(***************************************************************************)
(* C26.  The health endpoint puts every model identifier into the backend  *)
(* family the router puts it into: the type of each model_info is the      *)
(* route kind parse_model_identifier returns for its identifier.  The      *)
(* response has one model_info per configured council model and one for    *)
(* the chairman, all_ready is true exactly when all of them are ready, and *)
(* the status is healthy exactly when all_ready is true, degraded          *)
(* otherwise.                                                              *)
(***************************************************************************)
C26_HealthAgreesWithRouter ==
    health.status # "none" =>
        /\ \A info \in HealthInfos : info.type = parse_model_identifier(info.identifier)[1]
        /\ Len(health.council_models) = Len(ConfiguredModels)
        /\ \A i \in DOMAIN health.council_models :
              health.council_models[i].identifier = ConfiguredModels[i]
        /\ health.chairman_model.identifier = ConfiguredChairman
        /\ health.all_ready <=> \A info \in HealthInfos : info.ready
        /\ health.status = "healthy" <=> health.all_ready
        /\ health.status = "degraded" <=> ~health.all_ready

C26_Witness ==
    /\ health.status = "degraded"
    /\ keys = {"anthropic"}
    /\ Len(health.council_models) = 1
    /\ health.council_models[1] =
          ModelInfo(S_openrouter_prefix \o S_openai \o <<"/", "m">>, S_openrouter, FALSE)
    /\ health.chairman_model = ModelInfo(M_anthropic, S_anthropic, TRUE)

====
